---- MODULE Spec2Model ----
(***************************************************************************)
(* State-machine model of the View Assist menu manager                     *)
(* (custom_components/view_assist/menu_manager.py) together with the       *)
(* sensor's set_state handler (sensor.py) that lands its writes in the     *)
(* entity store.  Every menu operation is one action: the coroutines of    *)
(* MenuManager contain no suspension point before they return, so the      *)
(* event loop runs each of them to completion.  The only suspended tasks   *)
(* are the debounced flush task (_process_pending_updates) and the         *)
(* timeout tasks (_handle_timeout), which are modelled as separate         *)
(* actions.                                                                *)
(***************************************************************************)
EXTENDS Integers, Sequences, FiniteSets, TLC

\* ------------------------------------------------------------------ bounds
MaxInitIcons == 2
MaxInitItems == 2
MaxItemTasks == 2
\* external calls (menu operations, navigations) explored from each initial state
MaxCalls == 1
\* toggle_menu calls explored by SpecToggle, menu operations explored by SpecSeq
MaxToggleCalls == 2
MaxSeqCalls == 2
\* service calls explored by SpecServices
MaxServiceCalls == 2
\* toggle_menu calls explored by SpecFlush
MaxFlushCalls == 2
\* menu operations explored by SpecItems
MaxItemCalls == 2
\* menu operations explored by SpecRefresh
MaxRefreshCalls == 3
\* menu operations explored by SpecAutoRemove
MaxAutoRemoveCalls == 2
MaxDeviceCalls == 2

\* ------------------------------------------------------------- vocabulary
E1 == "sensor.va1"
E2 == "sensor.va2"
Entities == {E1, E2}
\* the entities the operations of Spec are invoked for
ActiveEntities == {E1}

MenuIcon == "menu"
Icons == {"menu", "weather", "music"}

NoTimeout == -1
NoTask == 0
DEFAULT_MENU_TIMEOUT == 10
ToggleTimeouts == {NoTimeout, 0}
ItemTimeouts == {NoTimeout, 5}

\* current_path values, split at "/"
Paths == { <<"lovelace", "weather">>,
           <<"view-assist", "weather">> }
NoView == "None"

\* ---------------------------------------------------------- list helpers
Contains(s, x) == \E i \in 1..Len(s) : s[i] = x

Elems(s) == {s[i] : i \in 1..Len(s)}

NoDup(s) == \A i, j \in 1..Len(s) : i # j => s[i] # s[j]

Without(s, x) == SelectSeq(s, LAMBDA y : y # x)

WithoutAll(s, xs) == SelectSeq(s, LAMBDA y : y \notin xs)

\* list.remove(x): drops the first occurrence
RemoveFirst(s, x) ==
  LET i == CHOOSE k \in 1..Len(s) : s[k] = x /\ \A j \in 1..(k-1) : s[j] # x
  IN  SubSeq(s, 1, i-1) \o SubSeq(s, i+1, Len(s))

\* for item in items: if item not in acc: acc.append(item)
RECURSIVE AppendMissing(_, _)
AppendMissing(acc, items) ==
  IF items = <<>> THEN acc
  ELSE AppendMissing(IF Contains(acc, Head(items)) THEN acc
                     ELSE Append(acc, Head(items)), Tail(items))

SeqsUpTo(S, n) == UNION {[1..k -> S] : k \in 0..n}

DistinctSeqs(S, n) == {s \in SeqsUpTo(S, n) : NoDup(s)}

IsLast(s, x) == Len(s) > 0 /\ s[Len(s)] = x /\ ~Contains(SubSeq(s, 1, Len(s)-1), x)

\* ------------------------------------------------------------- dict helpers
EmptyDict == [k \in {} |-> 0]

\* dict.update(b)
DictUpdate(a, b) ==
  [k \in (DOMAIN a) \cup (DOMAIN b) |-> IF k \in DOMAIN b THEN b[k] ELSE a[k]]

Has(d, k) == k \in DOMAIN d

\* ------------------------------------------------------------------ state
VARIABLES
  options,          \* config entry options per entity
  store,            \* hass.states: the entity's attributes
  menu_states,      \* MenuManager._menu_states
  pending_updates,  \* MenuManager._pending_updates (insertion ordered)
  update_task,      \* MenuManager._update_task
  flush_updates,    \* local `updates` of the running _process_pending_updates
  timeout_tasks,    \* pending _timeout_task tasks of the event loop
  item_tasks,       \* pending _item_timeout_task tasks of the event loop
  raised,           \* an operation ended in an exception
  timers,           \* VATimers: the timers of the Timer Engine
  trace,            \* the operations and set_state calls so far (history)
  store0,           \* the store when the manager was constructed (history)
  calls             \* external calls still to be explored (bounds the run)

vars == <<options, store, menu_states, pending_updates, update_task,
          flush_updates, timeout_tasks, item_tasks, raised, timers, trace, store0,
          calls>>

\* ----------------------------------------------------------------- helpers.py
\* ensure_menu_button_at_end(status_icons)
ensure_menu_button_at_end(icons) == Append(Without(icons, MenuIcon), MenuIcon)

\* normalize_status_items(raw_input): a string, a list of strings or None
normalize_status_items(raw) ==
  CASE raw.kind = "str"  -> IF raw.val = "" THEN [kind |-> "none"] ELSE raw
    [] raw.kind = "list" -> LET v == SelectSeq(raw.val, LAMBDA x : x # "")
                            IN IF v = <<>> THEN [kind |-> "none"]
                               ELSE [kind |-> "list", val |-> v]
    [] OTHER             -> [kind |-> "none"]

\* get_config_entry_by_entity_id(hass, entity_id)
get_config_entry_by_entity_id(e) == options[e]

\* ------------------------------------------------------------ MenuManager
\* MenuState(entity_id=entity_id)
NewMenuState ==
  [created |-> TRUE, active |-> FALSE, configured_items |-> <<>>,
   status_icons |-> <<>>, system_icons |-> <<>>, menu_timeout |-> NoTask,
   item_timeouts |-> EmptyDict]

NoMenuState == [NewMenuState EXCEPT !.created = FALSE]

\* system_icons of _get_or_create_state
SystemIcons(status_icons, configured_items) ==
  SelectSeq(status_icons,
            LAMBDA icon : icon \notin Elems(configured_items) /\ icon # MenuIcon)

\* the manager's own mutable state, threaded through its methods; queued is
\* history: the changes the running operation handed to _update_entity_state
Mgr ==
  [menu_states |-> menu_states, pending_updates |-> pending_updates,
   update_task |-> update_task, timeout_tasks |-> timeout_tasks,
   item_tasks |-> item_tasks, raised |-> raised, queued |-> EmptyDict]

\* _get_or_create_state
GetOrCreateState(m, e) ==
  IF ~store[e].exists
  THEN IF m.menu_states[e].created THEN m
       ELSE [m EXCEPT !.menu_states[e] = NewMenuState]
  ELSE LET base == IF m.menu_states[e].created THEN m.menu_states[e]
                   ELSE NewMenuState
       IN [m EXCEPT !.menu_states[e] =
             [base EXCEPT !.configured_items = store[e].menu_items,
                          !.status_icons = store[e].status_icons,
                          !.system_icons = SystemIcons(store[e].status_icons,
                                                       store[e].menu_items),
                          !.active = store[e].menu_active]]

\* _get_current_view: re.search(r"/view-assist/([^/]+)", current_path)
GetCurrentView(path) ==
  LET hits == {i \in 1..(Len(path)-1) : path[i] = "view-assist" /\ path[i+1] # ""}
  IN IF hits = {} THEN NoView
     ELSE path[(CHOOSE i \in hits : \A j \in hits : i <= j) + 1]

\* task.done() of an auto-close task handle
TimeoutDone(m, id) == ~\E t \in m.timeout_tasks : t.id = id

FreshTimeoutId(m) ==
  LET used == {t.id : t \in m.timeout_tasks}
              \cup {m.menu_states[e].menu_timeout : e \in Entities}
  IN CHOOSE i \in 1..(Cardinality(used) + 1) : i \notin used

CancelTimeoutSkipped(m0, e) == GetOrCreateState(m0, e)

CancelTimeoutHandleOnly(m0, e) ==
  LET m == GetOrCreateState(m0, e)
  IN [m EXCEPT !.menu_states[e].menu_timeout = NoTask]

\* _cancel_timeout
CancelTimeout(m0, e) ==
  LET m == GetOrCreateState(m0, e)
      h == m.menu_states[e].menu_timeout
  IN IF h # NoTask /\ ~TimeoutDone(m, h)
     THEN [m EXCEPT !.timeout_tasks = {t \in @ : t.id # h},
                    !.menu_states[e].menu_timeout = NoTask]
     ELSE m

\* _setup_timeout
SetupTimeout(m0, e, timeout) ==
  LET m == GetOrCreateState(m0, e)
      h == m.menu_states[e].menu_timeout
      m1 == IF h # NoTask /\ ~TimeoutDone(m, h)
            THEN [m EXCEPT !.timeout_tasks = {t \in @ : t.id # h}]
            ELSE m
      id == FreshTimeoutId(m1)
  IN [m1 EXCEPT !.timeout_tasks = @ \cup {[id |-> id, entity |-> e, delay |-> timeout]},
                !.menu_states[e].menu_timeout = id]

\* position of an entity in the insertion-ordered _pending_updates
PendingIndex(p, e) ==
  IF \E i \in 1..Len(p) : p[i].entity_id = e
  THEN CHOOSE i \in 1..Len(p) : p[i].entity_id = e
  ELSE 0

\* faulty variants of _update_entity_state: an entry per call, the first value
\* of an attribute kept, the entry replaced
UpdateEntityStateNoMerge(m, e, changes) ==
  IF DOMAIN changes = {} THEN m
  ELSE [m EXCEPT !.pending_updates = Append(@, [entity_id |-> e, changes |-> changes]),
                 !.queued = DictUpdate(@, changes),
                 !.update_task = IF @ \in {"none", "done"} THEN "sleeping" ELSE @]

UpdateEntityStateKeepFirst(m, e, changes) ==
  IF DOMAIN changes = {} THEN m
  ELSE LET p == m.pending_updates
           p1 == IF PendingIndex(p, e) = 0
                 THEN Append(p, [entity_id |-> e, changes |-> EmptyDict])
                 ELSE p
           i == PendingIndex(p1, e)
           p2 == [p1 EXCEPT ![i].changes = DictUpdate(changes, @)]
       IN [m EXCEPT !.pending_updates = p2,
                    !.queued = DictUpdate(@, changes),
                    !.update_task = IF @ \in {"none", "done"} THEN "sleeping" ELSE @]

UpdateEntityStateReplace(m, e, changes) ==
  IF DOMAIN changes = {} THEN m
  ELSE LET p == m.pending_updates
           p1 == IF PendingIndex(p, e) = 0
                 THEN Append(p, [entity_id |-> e, changes |-> EmptyDict])
                 ELSE p
           i == PendingIndex(p1, e)
           p2 == [p1 EXCEPT ![i].changes = changes]
       IN [m EXCEPT !.pending_updates = p2,
                    !.queued = DictUpdate(@, changes),
                    !.update_task = IF @ \in {"none", "done"} THEN "sleeping" ELSE @]

\* faulty variant of _update_entity_state: one slot for all devices
UpdateEntityStateOneSlot(m, e, changes) ==
  IF DOMAIN changes = {} THEN m
  ELSE LET old == IF PendingIndex(m.pending_updates, e) = 0 THEN EmptyDict
                  ELSE m.pending_updates[PendingIndex(m.pending_updates, e)].changes
       IN [m EXCEPT !.pending_updates =
                      <<[entity_id |-> e, changes |-> DictUpdate(old, changes)]>>,
                    !.queued = DictUpdate(@, changes),
                    !.update_task = IF @ \in {"none", "done"} THEN "sleeping" ELSE @]

\* _update_entity_state
UpdateEntityState(m, e, changes) ==
  IF DOMAIN changes = {} THEN m
  ELSE LET p == m.pending_updates
           p1 == IF PendingIndex(p, e) = 0
                 THEN Append(p, [entity_id |-> e, changes |-> EmptyDict])
                 ELSE p
           i == PendingIndex(p1, e)
           p2 == [p1 EXCEPT ![i].changes = DictUpdate(@, changes)]
       IN [m EXCEPT !.pending_updates = p2,
                    !.queued = DictUpdate(@, changes),
                    !.update_task = IF @ \in {"none", "done"} THEN "sleeping" ELSE @]

ShowIconsNoMembershipTest(status_icons, configured_items, show_menu_button) ==
  LET updated == status_icons \o configured_items
  IN IF show_menu_button THEN ensure_menu_button_at_end(updated) ELSE updated

\* toggle_menu, show branch: the icons to display
ShowIcons(status_icons, configured_items, show_menu_button) ==
  LET updated == AppendMissing(status_icons, configured_items)
  IN IF show_menu_button THEN ensure_menu_button_at_end(updated) ELSE updated

HideIconsMenuKept(status_icons, configured_items, system_icons, show_menu_button) ==
  LET custom == SelectSeq(status_icons,
                  LAMBDA icon : ~Contains(configured_items, icon))
      updated == AppendMissing(custom, system_icons)
  IN IF show_menu_button /\ ~Contains(updated, MenuIcon)
     THEN Append(updated, MenuIcon) ELSE updated

\* toggle_menu, hide branch: the icons that remain
HideIcons(status_icons, configured_items, system_icons, show_menu_button) ==
  LET custom == SelectSeq(status_icons,
                  LAMBDA icon : ~Contains(configured_items, icon) /\ icon # MenuIcon)
      updated == AppendMissing(custom, system_icons)
  IN IF show_menu_button /\ ~Contains(updated, MenuIcon)
     THEN Append(updated, MenuIcon) ELSE updated

\* configured items without the current view (toggle_menu, refresh_menu)
FilterCurrentView(configured_items, current_view) ==
  IF current_view # NoView /\ Contains(configured_items, current_view)
  THEN Without(configured_items, current_view)
  ELSE configured_items

ToggleTimeoutTruthy(timeout, opts) ==
  IF timeout # NoTimeout /\ timeout # 0 THEN timeout
  ELSE IF opts.enable_menu_timeout THEN opts.menu_timeout
  ELSE NoTimeout

\* toggle_menu: which auto-close delay is armed, NoTimeout for none
ToggleTimeout(timeout, opts) ==
  IF timeout # NoTimeout THEN timeout
  ELSE IF opts.enable_menu_timeout THEN opts.menu_timeout
  ELSE NoTimeout

\* show = not current_active when show is None
ResolveShow(show, current_active) ==
  IF show = "None" THEN ~current_active ELSE show = "True"

\* toggle_menu
toggle_menu(m0, e, show, timeout) ==
  LET opts == get_config_entry_by_entity_id(e)
  IN IF ~opts.has_entry \/ ~opts.enable_menu THEN m0
     ELSE IF ~store[e].exists THEN m0
     ELSE
       LET m1 == GetOrCreateState(m0, e)
           doShow == ResolveShow(show, m1.menu_states[e].active)
           m2 == CancelTimeout(m1, e)
           ms == m2.menu_states[e]
       IN IF doShow
          THEN
            LET view == GetCurrentView(store[e].current_path)
                items == FilterCurrentView(ms.configured_items, view)
                updated == ShowIcons(ms.status_icons, items, opts.show_menu_button)
                m3 == [m2 EXCEPT !.menu_states[e].configured_items = items,
                                 !.menu_states[e].active = TRUE,
                                 !.menu_states[e].status_icons = updated]
                changes == [status_icons |-> updated, menu_active |-> TRUE,
                            menu_items |-> items]
                t == ToggleTimeout(timeout, opts)
                m4 == IF t # NoTimeout THEN SetupTimeout(m3, e, t) ELSE m3
            IN UpdateEntityState(m4, e, changes)
          ELSE
            LET updated == HideIcons(ms.status_icons, ms.configured_items,
                                     ms.system_icons, opts.show_menu_button)
                m3 == [m2 EXCEPT !.menu_states[e].active = FALSE,
                                 !.menu_states[e].status_icons = updated]
                changes == [status_icons |-> updated, menu_active |-> FALSE]
            IN UpdateEntityState(m3, e, changes)

\* key of MenuState.item_timeouts: f"{prefix}{menu_item}"
ItemKey(menu_item, is_menu_item) ==
  (IF is_menu_item THEN "menu_" ELSE "status_") \o menu_item

ItemTaskDone(m, id) == ~\E t \in m.item_tasks : t.id = id

FreshItemId(m) ==
  LET used == {t.id : t \in m.item_tasks}
              \cup UNION {{m.menu_states[e].item_timeouts[k] :
                            k \in DOMAIN m.menu_states[e].item_timeouts} : e \in Entities}
  IN CHOOSE i \in 1..(Cardinality(used) + 1) : i \notin used

DictRemove(d, k) == [x \in (DOMAIN d) \ {k} |-> d[x]]

CancelItemTimeoutSkipped(m0, e, menu_item, is_menu_item) == GetOrCreateState(m0, e)

\* _cancel_item_timeout
CancelItemTimeout(m0, e, menu_item, is_menu_item) ==
  LET m == GetOrCreateState(m0, e)
      key == ItemKey(menu_item, is_menu_item)
      d == m.menu_states[e].item_timeouts
  IN IF Has(d, key)
     THEN [m EXCEPT !.item_tasks = {t \in @ : t.id # d[key]},
                    !.menu_states[e].item_timeouts = DictRemove(d, key)]
     ELSE m

SetupItemTimeoutNoCancel(m0, e, menu_item, timeout, is_menu_item) ==
  LET m == GetOrCreateState(m0, e)
      key == ItemKey(menu_item, is_menu_item)
      id == FreshItemId(m)
  IN [m EXCEPT !.item_tasks = @ \cup {[id |-> id, entity |-> e, item |-> menu_item,
                                       is_menu |-> is_menu_item, delay |-> timeout]},
               !.menu_states[e].item_timeouts =
                   DictUpdate(@, [k \in {key} |-> id])]

\* _setup_item_timeout
SetupItemTimeout(m0, e, menu_item, timeout, is_menu_item) ==
  LET m == GetOrCreateState(m0, e)
      key == ItemKey(menu_item, is_menu_item)
      m1 == CancelItemTimeout(m, e, menu_item, is_menu_item)
      id == FreshItemId(m1)
  IN [m1 EXCEPT !.item_tasks = @ \cup {[id |-> id, entity |-> e, item |-> menu_item,
                                        is_menu |-> is_menu_item, delay |-> timeout]},
                !.menu_states[e].item_timeouts =
                    DictUpdate(@, [k \in {key} |-> id])]

\* _normalize_status_items
NormalizeStatusItems(raw) ==
  LET result == normalize_status_items(raw)
  IN CASE result.kind = "str"  -> <<result.val>>
       [] result.kind = "none" -> <<>>
       [] OTHER                -> result.val

AddConfiguredItemsAlways(configured_items, items) == configured_items \o items

\* add_menu_item, menu branch: the new configured items
AddConfiguredItems(configured_items, items) == AppendMissing(configured_items, items)

\* add_menu_item, menu branch on an active menu: the new status icons
AddMenuIcons(status_icons, items, show_menu_button) ==
  LET updated == AppendMissing(status_icons, items)
  IN IF show_menu_button THEN ensure_menu_button_at_end(updated) ELSE updated

AddStatusIconsButtonNotMoved(status_icons, items, show_menu_button) ==
  LET updated == AppendMissing(status_icons, Without(items, MenuIcon))
  IN IF show_menu_button /\ ~Contains(updated, MenuIcon)
     THEN Append(updated, MenuIcon) ELSE updated

\* add_menu_item, status branch: the new status icons
AddStatusIcons(status_icons, items, show_menu_button) ==
  LET updated == AppendMissing(status_icons, Without(items, MenuIcon))
  IN IF show_menu_button THEN ensure_menu_button_at_end(updated) ELSE updated

RECURSIVE SetupItemTimeouts(_, _, _, _, _)
SetupItemTimeouts(m, e, items, timeout, menu) ==
  IF items = <<>> THEN m
  ELSE SetupItemTimeouts(SetupItemTimeout(m, e, Head(items), timeout, menu),
                         e, Tail(items), timeout, menu)

AddChangesAlwaysLive(ms, items, menu, show_menu_button) ==
  IF menu
  THEN LET updated_items == AddConfiguredItems(ms.configured_items, items)
       IN IF updated_items = ms.configured_items THEN EmptyDict
          ELSE [menu_items |-> updated_items,
                status_icons |-> AddMenuIcons(ms.status_icons, items, show_menu_button)]
  ELSE LET updated_icons == AddStatusIcons(ms.status_icons, items, show_menu_button)
       IN IF show_menu_button \/ Len(updated_icons) # Len(ms.status_icons)
          THEN [status_icons |-> updated_icons]
          ELSE EmptyDict

\* the changes add_menu_item hands to _update_entity_state
AddChanges(ms, items, menu, show_menu_button) ==
  IF menu
  THEN LET updated_items == AddConfiguredItems(ms.configured_items, items)
       IN IF updated_items = ms.configured_items THEN EmptyDict
          ELSE IF ms.active
               THEN [menu_items |-> updated_items,
                     status_icons |-> AddMenuIcons(ms.status_icons, items,
                                                   show_menu_button)]
               ELSE [menu_items |-> updated_items]
  ELSE LET updated_icons == AddStatusIcons(ms.status_icons, items, show_menu_button)
       IN IF show_menu_button \/ Len(updated_icons) # Len(ms.status_icons)
          THEN [status_icons |-> updated_icons]
          ELSE EmptyDict

\* menu_state after the assignments that accompany `changes`
ApplyToMenuState(ms, changes) ==
  [ms EXCEPT !.configured_items =
               IF Has(changes, "menu_items") THEN changes.menu_items ELSE @,
             !.status_icons =
               IF Has(changes, "status_icons") THEN changes.status_icons ELSE @]

\* add_menu_item
add_menu_item(m0, e, status_item, menu, timeout) ==
  LET items == NormalizeStatusItems(status_item)
      opts == get_config_entry_by_entity_id(e)
  IN IF items = <<>> THEN m0
     ELSE IF ~opts.has_entry THEN m0
     ELSE
       LET m1 == GetOrCreateState(m0, e)
           changes == AddChanges(m1.menu_states[e], items, menu, opts.show_menu_button)
           m2 == [m1 EXCEPT !.menu_states[e] = ApplyToMenuState(@, changes)]
           m3 == UpdateEntityState(m2, e, changes)
       IN IF timeout # NoTimeout
          THEN SetupItemTimeouts(m3, e, items, timeout, menu)
          ELSE m3

\* for item in items: if item in icons and item in configured: icons.remove(item)
RECURSIVE RemoveConfiguredIcons(_, _, _)
RemoveConfiguredIcons(icons, items, configured_items) ==
  IF items = <<>> THEN icons
  ELSE RemoveConfiguredIcons(
         IF Contains(icons, Head(items)) /\ Contains(configured_items, Head(items))
         THEN RemoveFirst(icons, Head(items)) ELSE icons,
         Tail(items), configured_items)

\* remove_menu_item, menu branch on an active menu: the new status icons;
\* configured_items is menu_state.configured_items as already reassigned
RemoveMenuIcons(status_icons, items, configured_items, show_menu_button) ==
  LET updated == RemoveConfiguredIcons(status_icons, items, configured_items)
  IN IF show_menu_button /\ ~Contains(updated, MenuIcon)
     THEN Append(updated, MenuIcon) ELSE updated

\* for item in items: skip "menu" when the button is shown, else remove it
RECURSIVE RemoveIcons(_, _, _)
RemoveIcons(icons, items, show_menu_button) ==
  IF items = <<>> THEN icons
  ELSE RemoveIcons(
         IF Head(items) = MenuIcon /\ show_menu_button THEN icons
         ELSE IF Contains(icons, Head(items)) THEN RemoveFirst(icons, Head(items))
         ELSE icons,
         Tail(items), show_menu_button)

\* remove_menu_item, status branch: the new status icons
RemoveStatusIcons(status_icons, items, show_menu_button) ==
  LET updated == RemoveIcons(status_icons, items, show_menu_button)
  IN IF show_menu_button /\ ~Contains(updated, MenuIcon)
     THEN Append(updated, MenuIcon) ELSE updated

\* the changes remove_menu_item hands to _update_entity_state
RemoveChanges(ms, items, menu, show_menu_button) ==
  IF menu
  THEN LET updated_items == WithoutAll(ms.configured_items, Elems(items))
       IN IF updated_items = ms.configured_items THEN EmptyDict
          ELSE IF ms.active
               THEN [menu_items |-> updated_items,
                     status_icons |-> RemoveMenuIcons(ms.status_icons, items,
                                                      updated_items, show_menu_button)]
               ELSE [menu_items |-> updated_items]
  ELSE LET updated_icons == RemoveStatusIcons(ms.status_icons, items, show_menu_button)
       IN IF updated_icons # ms.status_icons
          THEN [status_icons |-> updated_icons]
          ELSE EmptyDict

RECURSIVE CancelItemTimeouts(_, _, _, _)
CancelItemTimeouts(m, e, items, menu) ==
  IF items = <<>> THEN m
  ELSE CancelItemTimeouts(CancelItemTimeout(m, e, Head(items), menu),
                          e, Tail(items), menu)

\* remove_menu_item
remove_menu_item(m0, e, status_item, menu) ==
  LET items == NormalizeStatusItems(status_item)
      opts == get_config_entry_by_entity_id(e)
  IN IF items = <<>> THEN m0
     ELSE IF ~opts.has_entry THEN m0
     ELSE
       LET m1 == GetOrCreateState(m0, e)
           changes == RemoveChanges(m1.menu_states[e], items, menu,
                                    opts.show_menu_button)
           m2 == [m1 EXCEPT !.menu_states[e] = ApplyToMenuState(@, changes)]
           m3 == UpdateEntityState(m2, e, changes)
       IN CancelItemTimeouts(m3, e, items, menu)

RefreshIconsFilteredLate(status_icons, old_configured, new_configured, show_menu_button) ==
  LET non_menu == SelectSeq(status_icons,
                    LAMBDA icon : ~Contains(new_configured, icon) /\ icon # MenuIcon)
      updated == AppendMissing(non_menu, new_configured)
  IN IF show_menu_button THEN ensure_menu_button_at_end(updated) ELSE updated

RefreshIconsNotStripped(status_icons, old_configured, new_configured, show_menu_button) ==
  LET updated == Without(status_icons, MenuIcon) \o new_configured
  IN IF show_menu_button THEN ensure_menu_button_at_end(updated) ELSE updated

\* refresh_menu: the icons to display
RefreshIcons(status_icons, old_configured, new_configured, show_menu_button) ==
  LET non_menu == SelectSeq(status_icons,
                    LAMBDA icon : ~Contains(old_configured, icon) /\ icon # MenuIcon)
      updated == AppendMissing(non_menu, new_configured)
  IN IF show_menu_button THEN ensure_menu_button_at_end(updated) ELSE updated

\* refresh_menu
refresh_menu(m0, e) ==
  IF ~store[e].exists THEN m0
  ELSE
    LET m1 == GetOrCreateState(m0, e)
        ms == m1.menu_states[e]
        opts == get_config_entry_by_entity_id(e)
    IN IF ~ms.active THEN m1
       ELSE IF ~opts.has_entry THEN m1
       ELSE
         LET view == GetCurrentView(store[e].current_path)
             items == FilterCurrentView(ms.configured_items, view)
             updated == RefreshIcons(ms.status_icons, ms.configured_items, items,
                                     opts.show_menu_button)
             m2 == [m1 EXCEPT !.menu_states[e].configured_items = items]
             changes == [status_icons |-> updated, menu_active |-> TRUE,
                         menu_items |-> items]
         IN UpdateEntityState(m2, e, changes)

\* ------------------------------------------------------------------ sensor
\* ViewAssistSensor.set_entity_state: every key but entity_id becomes an attribute
SetEntityState(st, changes) ==
  IF ~st.exists THEN st
  ELSE [st EXCEPT
          !.status_icons = IF Has(changes, "status_icons") THEN changes.status_icons ELSE @,
          !.menu_items = IF Has(changes, "menu_items") THEN changes.menu_items ELSE @,
          !.menu_active = IF Has(changes, "menu_active") THEN changes.menu_active ELSE @]

\* ------------------------------------------------------------ initial state
NoEntry ==
  [has_entry |-> FALSE, enable_menu |-> FALSE, show_menu_button |-> FALSE,
   enable_menu_timeout |-> FALSE, menu_timeout |-> DEFAULT_MENU_TIMEOUT,
   mimic_device |-> FALSE]

Entry(en, b, t) ==
  [has_entry |-> TRUE, enable_menu |-> en, show_menu_button |-> b,
   enable_menu_timeout |-> t, menu_timeout |-> DEFAULT_MENU_TIMEOUT,
   mimic_device |-> FALSE]

\* the menu timeout option is read only when the menu is enabled
Configs ==
  {NoEntry}
  \cup {Entry(FALSE, b, FALSE) : b \in BOOLEAN}
  \cup {Entry(TRUE, b, t) : b \in BOOLEAN, t \in BOOLEAN}

NoState ==
  [exists |-> FALSE, status_icons |-> <<>>, menu_items |-> <<>>,
   menu_active |-> FALSE, current_path |-> <<>>]

InitStores ==
  {NoState} \cup
  {[exists |-> TRUE, status_icons |-> si, menu_items |-> mi,
    menu_active |-> a, current_path |-> p] :
      si \in DistinctSeqs(Icons, MaxInitIcons),
      mi \in DistinctSeqs(Icons, MaxInitItems),
      a \in BOOLEAN, p \in Paths}

\* one entry of the history: an operation with its arguments, the changes it
\* queued and the flush task's state when it returned; or a set_state call with
\* the changes it carries; or a service call with its time phrase or selector, its
\* response and the Timer Engine method it invoked
Op(name, e, show, menu, items, timeout) ==
  [op |-> name, entity_id |-> e, show |-> show, menu |-> menu, items |-> items,
   timeout |-> timeout, changes |-> EmptyDict, task |-> "none",
   phrase |-> "", selector |-> "", result |-> "none", engine |-> "none"]

NoOp == Op("init", "", "", FALSE, <<>>, NoTimeout)

last == IF trace = <<>> THEN NoOp ELSE trace[Len(trace)]

Record(entry) == trace' = Append(trace, entry)

\* an operation that returned manager state m
RecordCall(entry, m) ==
  Record([entry EXCEPT !.changes = m.queued, !.task = m.update_task])

InitManager ==
  /\ menu_states = [e \in Entities |-> NoMenuState]
  /\ pending_updates = <<>>
  /\ update_task = "none"
  /\ flush_updates = <<>>
  /\ timeout_tasks = {}
  /\ item_tasks = {}
  /\ raised = FALSE
  /\ trace = <<>>

\* the manager right after construction, over the given configurations and
\* store contents of the entities operated on, with n external calls to explore
InitWith(configs, stores, n) ==
  /\ options \in [Entities -> configs \cup {NoEntry}]
  /\ \A e \in ActiveEntities : options[e] \in configs
  /\ \A e \in Entities \ ActiveEntities : options[e] = NoEntry
  /\ store \in [Entities -> stores \cup {NoState}]
  /\ \A e \in ActiveEntities : store[e] \in stores
  /\ \A e \in Entities \ ActiveEntities : store[e] = NoState
  /\ InitManager
  /\ timers = {}
  /\ store0 = store
  /\ calls = n

Init == InitWith(Configs, InitStores, MaxCalls)

\* ----------------------------------------------------------------- inputs
ShowArgs == {"None", "True", "False"}

RawItems ==
  { [kind |-> "none"],
    [kind |-> "str", val |-> ""],
    [kind |-> "str", val |-> "weather"],
    [kind |-> "str", val |-> "menu"],
    [kind |-> "list", val |-> <<"music", "weather">>],
    [kind |-> "list", val |-> <<"music", "", "music">>] }

\* an external call: counted against MaxCalls
Call ==
  /\ calls > 0
  /\ calls' = calls - 1

\* ---------------------------------------------------------------- actions
Assign(m) ==
  /\ menu_states' = m.menu_states
  /\ pending_updates' = m.pending_updates
  /\ update_task' = m.update_task
  /\ timeout_tasks' = m.timeout_tasks
  /\ item_tasks' = m.item_tasks
  /\ raised' = m.raised

\* a call of MenuManager.toggle_menu
ToggleMenu(e, show, timeout) ==
  /\ Call
  /\ LET m == toggle_menu(Mgr, e, show, timeout)
     IN /\ Assign(m)
        /\ RecordCall(Op("toggle_menu", e, show, FALSE, <<>>, timeout), m)
  /\ UNCHANGED <<timers, options, store, flush_updates, store0>>

\* a call of MenuManager.add_menu_item
AddMenuItem(e, status_item, menu, timeout) ==
  LET m == add_menu_item(Mgr, e, status_item, menu, timeout)
  IN /\ Call
     /\ Cardinality(m.item_tasks) <= MaxItemTasks
     /\ Assign(m)
     /\ RecordCall(Op("add_menu_item", e, "", menu,
                       NormalizeStatusItems(status_item), timeout), m)
     /\ UNCHANGED <<timers, options, store, flush_updates, store0>>

\* a call of MenuManager.remove_menu_item
RemoveMenuItem(e, status_item, menu) ==
  /\ Call
  /\ LET m == remove_menu_item(Mgr, e, status_item, menu)
     IN /\ Assign(m)
        /\ RecordCall(Op("remove_menu_item", e, "", menu,
                          NormalizeStatusItems(status_item), NoTimeout), m)
  /\ UNCHANGED <<timers, options, store, flush_updates, store0>>

\* a call of MenuManager.refresh_menu
RefreshMenu(e) ==
  /\ Call
  /\ LET m == refresh_menu(Mgr, e)
     IN /\ Assign(m)
        /\ RecordCall(Op("refresh_menu", e, "", FALSE, <<>>, NoTimeout), m)
  /\ UNCHANGED <<timers, options, store, flush_updates, store0>>

\* faulty variant: the cancellation of the running task ends its callback at once
MenuTimeoutFiresAborted(t) ==
  /\ t \in timeout_tasks
  /\ LET m == CancelTimeout(Mgr, t.entity)
     IN /\ Assign([m EXCEPT !.timeout_tasks = @ \ {t}])
        /\ RecordCall(Op("menu_timeout", t.entity, "False", FALSE, <<>>, t.delay), m)
  /\ UNCHANGED <<timers, options, store, flush_updates, store0, calls>>

\* _timeout_task: the sleep of _handle_timeout is over, the callback runs
MenuTimeoutFires(t) ==
  /\ t \in timeout_tasks
  /\ LET m == toggle_menu(Mgr, t.entity, "False", NoTimeout)
     IN /\ Assign([m EXCEPT !.timeout_tasks = @ \ {t}])
        /\ RecordCall(Op("menu_timeout", t.entity, "False", FALSE, <<>>, t.delay), m)
  /\ UNCHANGED <<timers, options, store, flush_updates, store0, calls>>

\* _item_timeout_task: the sleep of _handle_timeout is over, the callback runs
ItemTimeoutFires(t) ==
  /\ t \in item_tasks
  /\ LET m == remove_menu_item(Mgr, t.entity, [kind |-> "str", val |-> t.item],
                               t.is_menu)
     IN /\ Assign([m EXCEPT !.item_tasks = @ \ {t}])
        /\ RecordCall(Op("item_timeout", t.entity, "", t.is_menu, <<t.item>>,
                          t.delay), m)
  /\ UNCHANGED <<timers, options, store, flush_updates, store0, calls>>

\* hass.services.async_call(DOMAIN, "set_state", changes) for the head of `updates`
CallSetState(updates) ==
  /\ store' = [store EXCEPT ![Head(updates).entity_id] =
                 SetEntityState(@, Head(updates).changes)]
  /\ flush_updates' = Tail(updates)
  /\ Record([Op("set_state", Head(updates).entity_id, "", FALSE, <<>>, NoTimeout)
               EXCEPT !.changes = Head(updates).changes, !.task = "awaiting"])

\* _process_pending_updates: the debounce sleep is over; the pending updates are
\* taken and the first set_state call is issued
ProcessPendingUpdates ==
  /\ update_task = "sleeping"
  /\ pending_updates' = <<>>
  /\ IF pending_updates = <<>>
     THEN /\ update_task' = "done"
          /\ UNCHANGED <<store, flush_updates, trace>>
     ELSE /\ update_task' = "awaiting"
          /\ CallSetState(pending_updates)
  /\ UNCHANGED <<timers, options, menu_states, timeout_tasks, item_tasks, raised, store0, calls>>

\* _process_pending_updates: an awaited set_state call returns; the loop goes on
ProcessNextUpdate ==
  /\ update_task = "awaiting"
  /\ IF flush_updates = <<>>
     THEN /\ update_task' = "done"
          /\ UNCHANGED <<store, flush_updates, trace>>
     ELSE /\ update_task' = "awaiting"
          /\ CallSetState(flush_updates)
  /\ UNCHANGED <<timers, options, menu_states, pending_updates, timeout_tasks, item_tasks,
                 raised, store0, calls>>

\* the displayed view changes (the store's current_path attribute)
Navigate(e, path) ==
  /\ Call
  /\ store[e].exists
  /\ store[e].current_path # path
  /\ store' = [store EXCEPT ![e].current_path = path]
  /\ Record(Op("navigate", e, "", FALSE, <<>>, NoTimeout))
  /\ UNCHANGED <<timers, options, menu_states, pending_updates, update_task, flush_updates,
                 timeout_tasks, item_tasks, raised, store0>>

Next ==
  \/ \E e \in ActiveEntities, show \in ShowArgs, t \in ToggleTimeouts :
       ToggleMenu(e, show, t)
  \/ \E e \in ActiveEntities, raw \in RawItems, menu \in BOOLEAN, t \in ItemTimeouts :
       AddMenuItem(e, raw, menu, t)
  \/ \E e \in ActiveEntities, raw \in RawItems, menu \in BOOLEAN :
       RemoveMenuItem(e, raw, menu)
  \/ \E e \in ActiveEntities : RefreshMenu(e)
  \/ \E t \in timeout_tasks : MenuTimeoutFires(t)
  \/ \E t \in item_tasks : ItemTimeoutFires(t)
  \/ ProcessPendingUpdates
  \/ ProcessNextUpdate
  \/ \E e \in ActiveEntities, p \in Paths : Navigate(e, p)

Spec == Init /\ [][Next]_vars

\* ---- sequences of toggle_menu calls on an enabled device
EnabledConfigs == {Entry(TRUE, b, t) : b \in BOOLEAN, t \in BOOLEAN}

SeqStores ==
  {[exists |-> TRUE, status_icons |-> si, menu_items |-> mi,
    menu_active |-> a, current_path |-> p] :
      si \in {<<>>, <<"music">>, <<"weather", "menu">>},
      mi \in {<<>>, <<"weather">>, <<"music", "weather">>, <<"menu">>},
      a \in BOOLEAN, p \in Paths}

InitToggle == InitWith(EnabledConfigs, SeqStores, MaxToggleCalls)

NextToggle ==
  \/ \E e \in ActiveEntities, show \in ShowArgs, t \in ToggleTimeouts :
       ToggleMenu(e, show, t)
  \/ \E t \in timeout_tasks : MenuTimeoutFires(t)
  \/ ProcessPendingUpdates
  \/ ProcessNextUpdate

SpecToggle == InitToggle /\ [][NextToggle]_vars

\* the event loop runs every task that is ready: the flush task wakes from its
\* debounce sleep and resumes when an awaited write returns
SpecToggleFair ==
  /\ SpecToggle
  /\ WF_vars(ProcessPendingUpdates)
  /\ WF_vars(ProcessNextUpdate)

\* the event loop also runs every auto-close task whose sleep is over: weak
\* fairness of AutoCloseFires, written out (a firing always extends the history,
\* so the action is enabled exactly when an auto-close task is pending)
AutoCloseFires == \E t \in timeout_tasks : MenuTimeoutFires(t)

SpecToggleTimersFair ==
  /\ SpecToggle
  /\ WF_vars(ProcessPendingUpdates)
  /\ WF_vars(ProcessNextUpdate)
  /\ []<>(timeout_tasks = {}) \/ []<><<AutoCloseFires>>_vars

\* ---- sequences of any menu operations on a device, without item timeouts
SeqConfigs == {Entry(TRUE, TRUE, TRUE), Entry(TRUE, FALSE, FALSE)}

SeqRawItems ==
  { [kind |-> "str", val |-> "weather"],
    [kind |-> "str", val |-> "menu"],
    [kind |-> "list", val |-> <<"music", "weather">>] }

InitSeq == InitWith(SeqConfigs, SeqStores, MaxSeqCalls)

NextSeq ==
  \/ \E e \in ActiveEntities, show \in ShowArgs : ToggleMenu(e, show, NoTimeout)
  \/ \E e \in ActiveEntities, raw \in SeqRawItems, menu \in BOOLEAN :
       AddMenuItem(e, raw, menu, NoTimeout)
  \/ \E e \in ActiveEntities, raw \in SeqRawItems, menu \in BOOLEAN :
       RemoveMenuItem(e, raw, menu)
  \/ \E e \in ActiveEntities : RefreshMenu(e)
  \/ \E t \in timeout_tasks : MenuTimeoutFires(t)
  \/ ProcessPendingUpdates
  \/ ProcessNextUpdate
  \/ \E e \in ActiveEntities, p \in Paths : Navigate(e, p)

SpecSeq == InitSeq /\ [][NextSeq]_vars

\* ---- toggle_menu(show=True), its write landed, then toggle_menu(show=False)
InitRoundTrip ==
  /\ InitWith(Configs, InitStores, 2)
  /\ \A e \in ActiveEntities : store[e].exists /\ ~store[e].menu_active

NextRoundTrip ==
  \/ /\ trace = <<>>
     /\ \E t \in ToggleTimeouts : ToggleMenu(E1, "True", t)
  \/ /\ Len(trace) = 2
     /\ update_task = "done"
     /\ \E t \in ToggleTimeouts : ToggleMenu(E1, "False", t)
  \/ ProcessPendingUpdates
  \/ ProcessNextUpdate

SpecRoundTrip == InitRoundTrip /\ [][NextRoundTrip]_vars

\* ---- menu operations with item timeouts and auto-close timeouts on a device
ItemConfigs == {Entry(TRUE, TRUE, FALSE), Entry(TRUE, FALSE, TRUE)}

ItemStores ==
  {[exists |-> TRUE, status_icons |-> si, menu_items |-> mi,
    menu_active |-> a, current_path |-> <<"lovelace", "weather">>] :
      si \in {<<>>, <<"weather", "menu">>},
      mi \in {<<>>, <<"weather">>},
      a \in BOOLEAN}

ItemRawItems ==
  { [kind |-> "str", val |-> "weather"],
    [kind |-> "list", val |-> <<"music", "", "music">>],
    [kind |-> "list", val |-> <<"music", "weather">>] }

InitItems == InitWith(ItemConfigs, ItemStores, MaxItemCalls)

NextItems ==
  \/ \E e \in ActiveEntities, show \in ShowArgs, t \in ToggleTimeouts :
       ToggleMenu(e, show, t)
  \/ \E e \in ActiveEntities, raw \in ItemRawItems, menu \in BOOLEAN, t \in ItemTimeouts :
       AddMenuItem(e, raw, menu, t)
  \/ \E e \in ActiveEntities, raw \in ItemRawItems, menu \in BOOLEAN :
       RemoveMenuItem(e, raw, menu)
  \/ \E t \in timeout_tasks : MenuTimeoutFires(t)
  \/ \E t \in item_tasks : ItemTimeoutFires(t)
  \/ ProcessPendingUpdates
  \/ ProcessNextUpdate

SpecItems == InitItems /\ [][NextItems]_vars

\* ---- refresh_menu among timeouts, navigations and flushes on a device
RefreshStores ==
  {[exists |-> TRUE, status_icons |-> si, menu_items |-> mi,
    menu_active |-> a, current_path |-> p] :
      si \in {<<"music">>, <<"weather", "menu">>},
      mi \in {<<"music", "weather">>},
      a \in {TRUE}, p \in Paths}

RefreshRawItems ==
  { [kind |-> "str", val |-> "weather"] }

InitRefresh == InitWith(SeqConfigs, RefreshStores, MaxRefreshCalls)

NextRefresh ==
  \/ \E e \in ActiveEntities : ToggleMenu(e, "True", NoTimeout)
  \/ \E e \in ActiveEntities, raw \in RefreshRawItems, menu \in BOOLEAN :
       AddMenuItem(e, raw, menu, 5)
  \/ \E e \in ActiveEntities : RefreshMenu(e)
  \/ \E t \in timeout_tasks : MenuTimeoutFires(t)
  \/ \E t \in item_tasks : ItemTimeoutFires(t)
  \/ ProcessPendingUpdates
  \/ ProcessNextUpdate
  \/ \E e \in ActiveEntities, p \in Paths : Navigate(e, p)

SpecRefresh == InitRefresh /\ [][NextRefresh]_vars

\* ---- add_menu_item with a timeout, toggles, and the tasks of the event loop
AutoRemoveStores ==
  {[exists |-> TRUE, status_icons |-> si, menu_items |-> mi,
    menu_active |-> a, current_path |-> <<"lovelace", "weather">>] :
      si \in {<<>>, <<"music">>},
      mi \in {<<>>, <<"music">>},
      a \in BOOLEAN}

InitAutoRemove == InitWith(SeqConfigs, AutoRemoveStores, MaxAutoRemoveCalls)

AutoRemoveFires == \E t \in item_tasks : ItemTimeoutFires(t)

NextAutoRemove ==
  \/ \E e \in ActiveEntities, show \in ShowArgs : ToggleMenu(e, show, NoTimeout)
  \/ \E e \in ActiveEntities, menu \in BOOLEAN :
       AddMenuItem(e, [kind |-> "str", val |-> "weather"], menu, 5)
  \/ AutoCloseFires
  \/ AutoRemoveFires
  \/ ProcessPendingUpdates
  \/ ProcessNextUpdate

SpecAutoRemove == InitAutoRemove /\ [][NextAutoRemove]_vars

\* the event loop runs every task that is ready: the flush task and the timeout
\* tasks whose sleep is over (weak fairness of the two firing actions, written
\* out: each is enabled exactly when a task of its kind is pending)
SpecAutoRemoveFair ==
  /\ SpecAutoRemove
  /\ WF_vars(ProcessPendingUpdates)
  /\ WF_vars(ProcessNextUpdate)
  /\ []<>(timeout_tasks = {}) \/ []<><<AutoCloseFires>>_vars
  /\ []<>(item_tasks = {}) \/ []<><<AutoRemoveFires>>_vars

\* ---- menu operations, timeouts and flushes over two enabled devices
DeviceStores ==
  {[exists |-> TRUE, status_icons |-> <<"music">>, menu_items |-> <<"music">>,
    menu_active |-> a, current_path |-> <<"lovelace", "weather">>] : a \in BOOLEAN}

InitDevices ==
  /\ options = [e \in Entities |-> Entry(TRUE, TRUE, FALSE)]
  /\ store \in [Entities -> DeviceStores]
  /\ InitManager
  /\ timers = {}
  /\ store0 = store
  /\ calls = MaxDeviceCalls

NextDevices ==
  \/ \E e \in Entities, show \in ShowArgs, t \in ToggleTimeouts : ToggleMenu(e, show, t)
  \/ \E e \in Entities, menu \in BOOLEAN, t \in ItemTimeouts :
       AddMenuItem(e, [kind |-> "str", val |-> "weather"], menu, t)
  \/ \E e \in Entities, menu \in BOOLEAN :
       RemoveMenuItem(e, [kind |-> "str", val |-> "music"], menu)
  \/ \E e \in Entities : RefreshMenu(e)
  \/ AutoCloseFires
  \/ AutoRemoveFires
  \/ ProcessPendingUpdates
  \/ ProcessNextUpdate

SpecDevices == InitDevices /\ [][NextDevices]_vars

\* ---- flushes over two devices, with store writes that may fail
\* the awaited set_state call for the head of `updates` raises: the exception
\* leaves the loop and ends the flush task, whose local `updates` is dropped
FailSetState(updates) ==
  /\ updates # <<>>
  /\ update_task' = "done"
  /\ flush_updates' = <<>>
  /\ Record([Op("set_state_failed", Head(updates).entity_id, "", FALSE, <<>>, NoTimeout)
               EXCEPT !.changes = Head(updates).changes, !.task = "done"])
  /\ UNCHANGED store

\* _process_pending_updates: the first set_state call of the flush raises
ProcessPendingUpdatesFails ==
  /\ update_task = "sleeping"
  /\ pending_updates' = <<>>
  /\ FailSetState(pending_updates)
  /\ UNCHANGED <<timers, options, menu_states, timeout_tasks, item_tasks, raised, store0, calls>>

\* _process_pending_updates: a later set_state call of the flush raises
ProcessNextUpdateFails ==
  /\ update_task = "awaiting"
  /\ FailSetState(flush_updates)
  /\ UNCHANGED <<timers, options, menu_states, pending_updates, timeout_tasks, item_tasks,
                 raised, store0, calls>>

FlushStores ==
  {[exists |-> TRUE, status_icons |-> si, menu_items |-> <<"weather">>,
    menu_active |-> a, current_path |-> <<"lovelace", "weather">>] :
      si \in {<<>>, <<"music">>}, a \in BOOLEAN}

InitFlush ==
  /\ options = [e \in Entities |-> Entry(TRUE, FALSE, FALSE)]
  /\ store \in [Entities -> FlushStores]
  /\ InitManager
  /\ timers = {}
  /\ store0 = store
  /\ calls = MaxFlushCalls

NextFlush ==
  \/ \E e \in Entities, show \in ShowArgs : ToggleMenu(e, show, NoTimeout)
  \/ ProcessPendingUpdates
  \/ ProcessNextUpdate
  \/ ProcessPendingUpdatesFails
  \/ ProcessNextUpdateFails

SpecFlush == InitFlush /\ [][NextFlush]_vars

\* ------------------------------------------------------------- timers.py
\* the time phrases given to the services
TimePhrases == {"in 5 minutes", "at 7:30", "soon", ""}

NoInfo == [kind |-> "none"]

\* decode_time_sentence(text): the timer_info of the phrase, NoInfo for None
decode_time_sentence(text) ==
  CASE text = "in 5 minutes" -> [kind |-> "interval", minutes |-> 5]
    [] text = "at 7:30"      -> [kind |-> "time", hour |-> 7, minute |-> 30]
    [] OTHER                 -> NoInfo

TimerIdSeq == <<"t1", "t2", "t3">>

NoId == "None"

NoOwner == "None"

Device1 == "device1"

\* the result of a Timer Engine method: its timers afterwards and whether it raised
Engine(ts, err) == [timers |-> ts, raised |-> err]

\* VATimers.add_timer
add_timer(ts, owner, timer_info) ==
  IF timer_info = NoInfo THEN Engine(ts, TRUE)
  ELSE Engine(ts \cup {[id |-> TimerIdSeq[Cardinality(ts) + 1], owner |-> owner,
                        info |-> timer_info, status |-> "active"]}, FALSE)

\* VATimers.snooze_timer
snooze_timer(ts, timer_id, timer_info) ==
  IF ~\E t \in ts : t.id = timer_id /\ t.status = "active" THEN Engine(ts, TRUE)
  ELSE Engine({IF t.id = timer_id THEN [t EXCEPT !.info = timer_info] ELSE t : t \in ts},
              FALSE)

\* VATimers.cancel_timer
cancel_timer(ts, timer_id, owner, cancel_all) ==
  IF timer_id = NoId /\ owner = NoOwner /\ ~cancel_all THEN Engine(ts, TRUE)
  ELSE Engine({IF /\ t.status = "active"
                  /\ \/ cancel_all
                     \/ timer_id # NoId /\ t.id = timer_id
                     \/ timer_id = NoId /\ owner # NoOwner /\ t.owner = owner
               THEN [t EXCEPT !.status = "cancelled"] ELSE t : t \in ts}, FALSE)

\* ------------------------------------------------------------- services.py
\* truth value of an Optional[int]
Truthy(t) == t # NoTimeout /\ t # 0

\* get_mimic_entity_id(hass)
get_mimic_entity_id ==
  IF \E e \in Entities : options[e].has_entry /\ options[e].mimic_device
  THEN CHOOSE e \in Entities : options[e].has_entry /\ options[e].mimic_device
  ELSE NoOwner

\* the manager's state is left as it is
ManagerUnchanged ==
  UNCHANGED <<menu_states, pending_updates, update_task, timeout_tasks, item_tasks>>

ServiceOp(name, e, timeout) == Op(name, e, "", FALSE, <<>>, timeout)

\* async_handle_toggle_menu: the manager is called with four positional arguments,
\* toggle_menu takes three, so the call raises TypeError before toggle_menu runs
ServiceToggleMenu(e, show, menu_items, timeout) ==
  /\ Call
  /\ raised' = TRUE
  /\ ManagerUnchanged
  /\ Record([Op("service_toggle_menu", e, show, FALSE, menu_items, timeout)
               EXCEPT !.task = update_task, !.result = "raised"])
  /\ UNCHANGED <<timers, options, store, flush_updates, store0>>

\* async_handle_add_menu_item: timeout is passed as the third positional argument
\* of add_menu_item, which is `menu`
ServiceAddMenuItem(e, menu_item, timeout) ==
  LET m == add_menu_item(Mgr, e, [kind |-> "str", val |-> menu_item],
                         Truthy(timeout), NoTimeout)
  IN /\ Call
     /\ Assign([m EXCEPT !.raised = FALSE])
     /\ RecordCall([Op("service_add_menu_item", e, "", FALSE, <<menu_item>>, timeout)
                      EXCEPT !.result = "ok"], m)
     /\ UNCHANGED <<timers, options, store, flush_updates, store0>>

\* async_handle_remove_menu_item
ServiceRemoveMenuItem(e, menu_item) ==
  LET m == remove_menu_item(Mgr, e, [kind |-> "str", val |-> menu_item], FALSE)
  IN /\ Call
     /\ Assign([m EXCEPT !.raised = FALSE])
     /\ RecordCall([Op("service_remove_menu_item", e, "", FALSE, <<menu_item>>,
                       NoTimeout) EXCEPT !.result = "ok"], m)
     /\ UNCHANGED <<timers, options, store, flush_updates, store0>>

\* a service call that touches only the Timer Engine
TimerService(entry, ts, err) ==
  /\ Call
  /\ timers' = ts
  /\ raised' = err
  /\ Record([entry EXCEPT !.task = update_task])
  /\ ManagerUnchanged
  /\ UNCHANGED <<options, store, flush_updates, store0>>

Targets == {"entity", "device", "none"}

\* faulty variant of async_handle_set_timer: the Timer Engine is called whatever
\* the decoder returned
ServiceSetTimerUnchecked(target, phrase) ==
  LET owner == IF target = "entity" THEN E1
               ELSE IF target = "device" THEN Device1 ELSE get_mimic_entity_id
      r == add_timer(timers, owner, decode_time_sentence(phrase))
  IN TimerService([ServiceOp("service_set_timer", owner, NoTimeout)
                     EXCEPT !.phrase = phrase, !.selector = target,
                            !.engine = "add_timer",
                            !.result = IF r.raised THEN "raised" ELSE "ok"],
                  r.timers, r.raised)

\* async_handle_set_timer
ServiceSetTimer(target, phrase) ==
  LET entity_id == IF target = "entity" THEN E1 ELSE NoOwner
      device_id == IF target = "device" THEN Device1 ELSE NoOwner
      timer_info == decode_time_sentence(phrase)
      no_target == entity_id = NoOwner /\ device_id = NoOwner
      mimic_device == get_mimic_entity_id
      owner == IF no_target THEN mimic_device
               ELSE IF entity_id # NoOwner THEN entity_id ELSE device_id
      entry == [ServiceOp("service_set_timer", owner, NoTimeout)
                  EXCEPT !.phrase = phrase, !.selector = target]
  IN IF no_target /\ mimic_device = NoOwner
     THEN TimerService([entry EXCEPT !.result = "raised"], timers, TRUE)
     ELSE IF timer_info # NoInfo
     THEN LET r == add_timer(timers, owner, timer_info)
          IN TimerService([entry EXCEPT !.engine = "add_timer",
                                        !.result = IF r.raised THEN "raised" ELSE "ok"],
                          r.timers, r.raised)
     ELSE TimerService([entry EXCEPT !.result = "error"], timers, FALSE)

\* async_handle_snooze_timer
ServiceSnoozeTimer(timer_id, phrase) ==
  LET timer_info == decode_time_sentence(phrase)
      entry == [ServiceOp("service_snooze_timer", timer_id, NoTimeout)
                  EXCEPT !.phrase = phrase]
  IN IF timer_info # NoInfo
     THEN LET r == snooze_timer(timers, timer_id, timer_info)
          IN TimerService([entry EXCEPT !.engine = "snooze_timer",
                                        !.result = IF r.raised THEN "raised" ELSE "ok"],
                          r.timers, r.raised)
     ELSE TimerService([entry EXCEPT !.result = "error"], timers, FALSE)

\* the selectors of cancel_timer: at most one of the exclusive fields is given
Selectors == {"none", "timer_id", "unknown_id", "empty_id", "entity_id",
              "device_id", "null_device", "remove_all", "keep_all"}

\* faulty variant of async_handle_cancel_timer: the Timer Engine is called whatever
\* the selector
ServiceCancelTimerUnchecked(sel) ==
  LET r == cancel_timer(timers, IF sel = "timer_id" THEN TimerIdSeq[1] ELSE NoId,
                        IF sel = "entity_id" THEN E1
                        ELSE IF sel = "device_id" THEN Device1 ELSE NoOwner,
                        sel = "remove_all")
  IN TimerService([ServiceOp("service_cancel_timer", NoId, NoTimeout)
                     EXCEPT !.selector = sel, !.engine = "cancel_timer",
                            !.result = IF r.raised THEN "raised" ELSE "ok"],
                  r.timers, r.raised)

\* async_handle_cancel_timer
ServiceCancelTimer(sel) ==
  LET timer_id == CASE sel = "timer_id" -> TimerIdSeq[1]
                    [] sel = "unknown_id" -> TimerIdSeq[3]
                    [] sel = "empty_id" -> ""
                    [] OTHER -> NoId
      entity_id == IF sel = "entity_id" THEN E1 ELSE NoOwner
      device_id == IF sel = "device_id" THEN Device1 ELSE NoOwner
      cancel_all == sel = "remove_all"
      any == \/ timer_id \notin {NoId, ""}
             \/ entity_id # NoOwner
             \/ device_id # NoOwner
             \/ cancel_all
      entry == [ServiceOp("service_cancel_timer", timer_id, NoTimeout)
                  EXCEPT !.selector = sel]
  IN IF any
     THEN LET r == cancel_timer(timers, timer_id,
                                IF entity_id # NoOwner THEN entity_id ELSE device_id,
                                cancel_all)
          IN TimerService([entry EXCEPT !.engine = "cancel_timer",
                                        !.result = IF r.raised THEN "raised" ELSE "ok"],
                          r.timers, r.raised)
     ELSE TimerService([entry EXCEPT !.result = "error"], timers, FALSE)

\* a timer's deferred expiry action fires
TimerExpires(t) ==
  /\ t \in timers /\ t.status = "active"
  /\ timers' = (timers \ {t}) \cup {[t EXCEPT !.status = "expired"]}
  /\ Record([ServiceOp("timer_expired", t.id, NoTimeout) EXCEPT !.task = update_task])
  /\ ManagerUnchanged
  /\ UNCHANGED <<options, store, flush_updates, raised, store0, calls>>

\* ---- service calls on a registered menu manager and Timer Engine
MimicEntry == [Entry(TRUE, FALSE, FALSE) EXCEPT !.mimic_device = TRUE]

ServiceConfigs == {Entry(TRUE, TRUE, FALSE), Entry(TRUE, FALSE, TRUE), MimicEntry}

ServiceStores ==
  {[exists |-> TRUE, status_icons |-> si, menu_items |-> mi,
    menu_active |-> a, current_path |-> <<"lovelace", "weather">>] :
      si \in {<<>>, <<"music">>}, mi \in {<<>>, <<"weather">>}, a \in BOOLEAN}

ServiceItems == {"weather", "music"}

ServiceTimeouts == {NoTimeout, 0, 5}

InitServices == InitWith(ServiceConfigs, ServiceStores, MaxServiceCalls)

NextServices ==
  \/ \E e \in ActiveEntities, show \in {"True", "False"},
        items \in {<<>>, <<"weather">>}, t \in ServiceTimeouts :
       ServiceToggleMenu(e, show, items, t)
  \/ \E e \in ActiveEntities, x \in ServiceItems, t \in ServiceTimeouts :
       ServiceAddMenuItem(e, x, t)
  \/ \E e \in ActiveEntities, x \in ServiceItems : ServiceRemoveMenuItem(e, x)
  \/ \E target \in Targets, phrase \in TimePhrases : ServiceSetTimer(target, phrase)
  \/ \E id \in {TimerIdSeq[1], TimerIdSeq[3]}, phrase \in TimePhrases :
       ServiceSnoozeTimer(id, phrase)
  \/ \E sel \in Selectors : ServiceCancelTimer(sel)
  \/ \E t \in timers : TimerExpires(t)
  \/ ProcessPendingUpdates
  \/ ProcessNextUpdate

SpecServices == InitServices /\ [][NextServices]_vars

\* ------------------------------------------------------------------ claims
ButtonShown(e) == options[e].has_entry /\ options[e].show_menu_button

MenuLastOrAbsent(icons) == ~Contains(icons, MenuIcon) \/ IsLast(icons, MenuIcon)

QueuedOk(updates, e, Ok(_)) ==
  \A i \in 1..Len(updates) :
    (updates[i].entity_id = e /\ Has(updates[i].changes, "status_icons"))
      => Ok(updates[i].changes.status_icons)

\* every status_icons value of entity e, stored, cached or on its way to the store
AllStatusIcons(e, Ok(_)) ==
  /\ Ok(store[e].status_icons)
  /\ Ok(menu_states[e].status_icons)
  /\ QueuedOk(pending_updates, e, Ok)
  /\ QueuedOk(flush_updates, e, Ok)

MenuLastEverywhere(e) == AllStatusIcons(e, MenuLastOrAbsent)

\* C1: with show_menu_button enabled, once "menu" is absent or last in the stored
\* (and queued) status_icons of a device, no operation, timeout or flush produces a
\* status_icons value in which "menu" is present but not last.
C1_MenuStaysLast ==
  [][\A e \in Entities :
       (ButtonShown(e) /\ MenuLastEverywhere(e)) => MenuLastEverywhere(e)']_vars

C1_Witness ==
  /\ ButtonShown(E1)
  /\ last.op = "set_state"
  /\ Has(last.changes, "status_icons")
  /\ Len(last.changes.status_icons) >= 2
  /\ IsLast(last.changes.status_icons, MenuIcon)
  /\ store[E1].status_icons = last.changes.status_icons

NoDupEverywhere(e) == AllStatusIcons(e, NoDup)

\* C2: starting from a store without duplicates in status_icons and menu_items, no
\* status_icons value that is stored or queued for the store holds an icon twice.
C2_NoDuplicateIcons == \A e \in Entities : NoDupEverywhere(e)

C2_Witness ==
  /\ last.op = "set_state"
  /\ Has(last.changes, "status_icons")
  /\ Len(last.changes.status_icons) >= 3
  /\ store[E1].menu_active
  /\ store[E1].status_icons = last.changes.status_icons

WithButton(icons, e) ==
  IF options[e].show_menu_button THEN Append(icons, MenuIcon) ELSE icons

\* the round trip has run: toggle_menu(True), set_state, toggle_menu(False), set_state
RoundTripDone ==
  /\ Len(trace) = 4
  /\ trace[1].op = "toggle_menu" /\ trace[1].show = "True"
  /\ trace[2].op = "set_state"
  /\ trace[3].op = "toggle_menu" /\ trace[3].show = "False"
  /\ trace[4].op = "set_state"

\* C3 as stated: after the round trip the stored status_icons are the original
\* icons other than "menu", in order, followed by "menu" if the button is shown.
C3_RoundTripKeepsEveryIcon ==
  RoundTripDone =>
    store[E1].status_icons = WithButton(Without(store0[E1].status_icons, MenuIcon), E1)

\* C3 amended: after the round trip the stored status_icons are the original icons
\* other than "menu" and other than the configured menu items the first call left
\* in menu_items, in order, followed by "menu" if the button is shown.
C3_RoundTripKeepsSystemIcons ==
  RoundTripDone =>
    store[E1].status_icons =
      WithButton(SelectSeq(store0[E1].status_icons,
                   LAMBDA i : i # MenuIcon /\ ~Contains(store[E1].menu_items, i)), E1)

C3_Witness ==
  /\ RoundTripDone
  /\ Len(store0[E1].status_icons) = 2
  /\ Len(store[E1].status_icons) = 2
  /\ \E i \in 1..2 : /\ store0[E1].status_icons[i] # MenuIcon
                     /\ Contains(store[E1].menu_items, store0[E1].status_icons[i])

\* what _get_or_create_state reads for an entity
ConfiguredItemsOf(e) ==
  IF store[e].exists THEN store[e].menu_items ELSE menu_states[e].configured_items

StatusIconsOf(e) ==
  IF store[e].exists THEN store[e].status_icons ELSE menu_states[e].status_icons

\* C4: add_menu_item(menu=True) with items, all of them configured already, changes
\* neither configured_items nor status_icons and queues no write.
C4_AddPresentItemIsNoOp ==
  [][\A e \in Entities :
       ( /\ calls' # calls
         /\ last'.op = "add_menu_item" /\ last'.entity_id = e /\ last'.menu
         /\ last'.items # <<>>
         /\ \A i \in Elems(last'.items) : Contains(ConfiguredItemsOf(e), i) )
       => /\ pending_updates' = pending_updates
          /\ update_task' = update_task
          /\ last'.changes = EmptyDict
          /\ ConfiguredItemsOf(e)' = ConfiguredItemsOf(e)
          /\ StatusIconsOf(e)' = StatusIconsOf(e)
          /\ menu_states'[e].created =>
               /\ menu_states'[e].configured_items = ConfiguredItemsOf(e)
               /\ menu_states'[e].status_icons = StatusIconsOf(e)]_vars

C4_Witness ==
  /\ last.op = "add_menu_item" /\ last.entity_id = E1 /\ last.menu
  /\ Len(last.items) = 2
  /\ \A i \in Elems(last.items) : Contains(store[E1].menu_items, i)
  /\ options[E1].has_entry
  /\ menu_states[E1].created
  /\ pending_updates = <<>> /\ update_task = "none"

IsToggle(x, e, show) == x.op = "toggle_menu" /\ x.entity_id = e /\ x.show = show

IsSetState(x, e) == x.op = "set_state" /\ x.entity_id = e

IsMenuTimeout(x, e) == x.op = "menu_timeout" /\ x.entity_id = e

Queued(x) == x.changes # EmptyDict

\* the auto-close callback and a manual toggle_menu(show=False) of e ran at
\* positions k-2 and k-1, in either order, while the flush task slept, and
\* position k is the flush
HideRace(k, e) ==
  /\ k >= 3 /\ k <= Len(trace)
  /\ \/ IsMenuTimeout(trace[k-2], e) /\ IsToggle(trace[k-1], e, "False")
     \/ IsToggle(trace[k-2], e, "False") /\ IsMenuTimeout(trace[k-1], e)
  /\ trace[k-2].task = "sleeping" /\ trace[k-1].task = "sleeping"
  /\ IsSetState(trace[k], e)

ShowThenHide(e) ==
  /\ Len(trace) >= 3
  /\ IsToggle(trace[Len(trace)-2], e, "True") /\ Queued(trace[Len(trace)-2])
  /\ trace[Len(trace)-2].task = "sleeping"
  /\ IsToggle(trace[Len(trace)-1], e, "False")
  /\ IsSetState(trace[Len(trace)], e)

NoTimeoutPending(e) == \A t \in timeout_tasks : t.entity # e

\* C7 as stated: show then hide before the flush ends with menu_active false in the
\* store, no configured menu item in the stored status_icons and no auto-close
\* timeout pending.
C7_HideWinsNoConfiguredIcon ==
  \A e \in Entities :
    ShowThenHide(e) =>
      /\ store[e].menu_active = FALSE
      /\ \A i \in Elems(store[e].status_icons) : ~Contains(store[e].menu_items, i)
      /\ NoTimeoutPending(e)

\* C7 amended: as C7, except that the toggle icon "menu" stays in status_icons when
\* it is itself a configured menu item and show_menu_button is enabled.
C7_HideWinsInCallOrder ==
  \A e \in Entities :
    ShowThenHide(e) =>
      /\ store[e].menu_active = FALSE
      /\ \A i \in Elems(store[e].status_icons) :
           Contains(store[e].menu_items, i) =>
             i = MenuIcon /\ options[e].show_menu_button
      /\ NoTimeoutPending(e)

C7_Witness ==
  /\ ShowThenHide(E1)
  /\ trace[Len(trace)-2].timeout = 0
  /\ Contains(trace[Len(trace)-2].changes.status_icons, "weather")
  /\ Contains(store[E1].menu_items, "weather")
  /\ ~Contains(store[E1].status_icons, "weather")
  /\ ~store[E1].menu_active

\* two toggle_menu calls of e with show omitted, the second before the flush, and
\* the flush as the latest event
DoubleFlip(e) ==
  /\ Len(trace) = 3
  /\ IsToggle(trace[1], e, "None") /\ Queued(trace[1]) /\ trace[1].task = "sleeping"
  /\ IsToggle(trace[2], e, "None") /\ Queued(trace[2])
  /\ IsSetState(trace[3], e)

\* C8: two back-to-back toggle_menu calls with show omitted each flip the state the
\* previous call produced, so the stored menu_active ends at its original value.
C8_DoubleFlipRestores ==
  \A e \in Entities :
    DoubleFlip(e) =>
      /\ trace[1].changes.menu_active = ~store0[e].menu_active
      /\ trace[2].changes.menu_active = ~trace[1].changes.menu_active
      /\ store[e].menu_active = store0[e].menu_active

C8_Scenario ==
  /\ DoubleFlip(E1)
  /\ ~store0[E1].menu_active
  /\ update_task = "done"

\* the calls of e that queue changes, and the events between two flushes of e
IsMenuCall(x, e) ==
  /\ x.entity_id = e
  /\ x.op \in {"toggle_menu", "add_menu_item", "remove_menu_item", "refresh_menu",
               "menu_timeout", "item_timeout"}

\* first position of the window that the set_state at position j closes
WindowStart(j, e) ==
  LET earlier == {i \in 1..(j-1) : IsSetState(trace[i], e)}
  IN IF earlier = {} THEN 1 ELSE 1 + CHOOSE i \in earlier : \A i2 \in earlier : i2 <= i

\* positions in the window of j whose call changed attribute a
Writers(j, e, a) ==
  {i \in WindowStart(j, e)..(j-1) : IsMenuCall(trace[i], e) /\ Has(trace[i].changes, a)}

Latest(S) == CHOOSE i \in S : \A i2 \in S : i2 <= i

Attributes == {"status_icons", "menu_items", "menu_active"}

\* C9: a set_state call carries exactly the attributes changed by the calls made
\* since the device's previous set_state, each with the value of the latest call
\* that changed it; so one call, or several within the debounce sleep, produce one
\* set_state carrying all their changes, never a second one.
C9_OneCoalescedWrite ==
  \A e \in Entities, j \in 1..Len(trace) :
    IsSetState(trace[j], e) =>
      /\ DOMAIN trace[j].changes # {}
      /\ DOMAIN trace[j].changes \subseteq Attributes
      /\ \A a \in Attributes :
           /\ Has(trace[j].changes, a) <=> Writers(j, e, a) # {}
           /\ Writers(j, e, a) # {} =>
                trace[j].changes[a] = trace[Latest(Writers(j, e, a))].changes[a]

C9_Witness ==
  /\ Len(trace) >= 3
  /\ IsSetState(last, E1)
  /\ IsMenuCall(trace[Len(trace)-1], E1) /\ trace[Len(trace)-1].task = "sleeping"
  /\ IsMenuCall(trace[Len(trace)-2], E1) /\ trace[Len(trace)-2].task = "sleeping"
  /\ Has(trace[Len(trace)-2].changes, "menu_active")
  /\ Has(trace[Len(trace)-1].changes, "status_icons")
  /\ ~Has(trace[Len(trace)-1].changes, "menu_active")
  /\ trace[Len(trace)-1].changes.status_icons # trace[Len(trace)-2].changes.status_icons
  /\ DOMAIN last.changes = Attributes

PendingTimeouts(e) == {t \in timeout_tasks : t.entity = e}

\* a toggle_menu call that armed an auto-close
Armed(x, e) ==
  /\ x.op = "toggle_menu" /\ x.entity_id = e
  /\ Has(x.changes, "menu_active") /\ x.changes.menu_active
  /\ x.timeout # NoTimeout \/ options[e].enable_menu_timeout

\* C10: a device never has more than one pending auto-close task, the pending one
\* is the one its menu state refers to, and two auto-close firings are always
\* separated by a call that armed a new one.
C10_OnePendingTimeout ==
  \A e \in Entities :
    /\ Cardinality(PendingTimeouts(e)) <= 1
    /\ \A t \in PendingTimeouts(e) : menu_states[e].menu_timeout = t.id
    /\ \A i, j \in 1..Len(trace) :
         (i < j /\ IsMenuTimeout(trace[i], e) /\ IsMenuTimeout(trace[j], e))
         => \E k \in (i+1)..(j-1) : Armed(trace[k], e)

C10_Witness ==
  /\ Len(trace) >= 2
  /\ Armed(trace[Len(trace)-1], E1)
  /\ Armed(last, E1)
  /\ Cardinality(PendingTimeouts(E1)) = 1

\* a call of e is the latest event, so the store is still what the call read
JustCalled(e, name) == last.op = name /\ last.entity_id = e

\* C11: remove_menu_item(menu=True) of a configured item x on an active menu
\* queues menu_items without x and status_icons without x.
C11_RemoveFromBoth ==
  \A e \in Entities, x \in Icons :
    ( /\ JustCalled(e, "remove_menu_item") /\ last.menu
      /\ Contains(last.items, x)
      /\ options[e].has_entry
      /\ store[e].exists /\ store[e].menu_active
      /\ Contains(store[e].menu_items, x) )
    => /\ Has(last.changes, "menu_items")
       /\ ~Contains(last.changes.menu_items, x)
       /\ Has(last.changes, "status_icons")
       /\ ~Contains(last.changes.status_icons, x)

C11_Scenario ==
  /\ JustCalled(E1, "remove_menu_item") /\ last.menu
  /\ last.items = <<"weather">>
  /\ options[E1].has_entry /\ ~options[E1].show_menu_button
  /\ store[E1].menu_active
  /\ store[E1].menu_items = <<"weather">>
  /\ store[E1].status_icons = <<"weather">>
  /\ last.changes = [menu_items |-> <<>>, status_icons |-> <<"weather">>]

MenuCalls == {"toggle_menu", "add_menu_item", "remove_menu_item", "refresh_menu"}

\* C12: on a device whose menu feature is disabled a menu operation raises
\* nothing, leaves the cached lists and flag as the store has them, arms no timeout
\* and queues no write.
C12_DisabledIsNoOp ==
  [][\A e \in Entities :
       ( /\ calls' # calls
         /\ last'.op \in MenuCalls /\ last'.entity_id = e
         /\ options[e].has_entry /\ ~options[e].enable_menu )
       => /\ ~raised'
          /\ pending_updates' = pending_updates
          /\ update_task' = update_task
          /\ timeout_tasks' = timeout_tasks
          /\ item_tasks' = item_tasks
          /\ last'.changes = EmptyDict
          /\ menu_states'[e].created =>
               /\ menu_states'[e].configured_items = ConfiguredItemsOf(e)
               /\ menu_states'[e].status_icons = StatusIconsOf(e)]_vars

C12_Scenario ==
  /\ JustCalled(E1, "add_menu_item") /\ ~last.menu
  /\ options[E1].has_entry /\ ~options[E1].enable_menu
  /\ store[E1].exists /\ store[E1].status_icons = <<>>
  /\ last.items = <<"weather">>
  /\ Has(last.changes, "status_icons")
  /\ Contains(last.changes.status_icons, "weather")
  /\ pending_updates # <<>>

\* the device's displayed view is v
Viewing(e, v) == store[e].exists /\ store[e].current_path = <<"view-assist", v>>

\* C13: after toggle_menu(show=True), refresh_menu on an active menu or
\* add_menu_item(menu=True), the configured items left for the device lack the
\* displayed view, and the view is in the queued status_icons only if it was a
\* status icon that was no configured item.
C13_ViewNotConfigured ==
  \A e \in Entities, v \in Icons :
    ( /\ Viewing(e, v)
      /\ options[e].has_entry
      /\ \/ JustCalled(e, "toggle_menu") /\ last.show = "True" /\ options[e].enable_menu
         \/ JustCalled(e, "refresh_menu") /\ store[e].menu_active
         \/ JustCalled(e, "add_menu_item") /\ last.menu /\ last.items # <<>> )
    => /\ ~Contains(menu_states[e].configured_items, v)
       /\ Has(last.changes, "menu_items") => ~Contains(last.changes.menu_items, v)
       /\ (Has(last.changes, "status_icons") /\ Contains(last.changes.status_icons, v))
            => ( /\ Contains(store[e].status_icons, v)
                 /\ ~Contains(store[e].menu_items, v) )

C13_Scenario ==
  /\ Viewing(E1, "weather")
  /\ options[E1].has_entry /\ options[E1].enable_menu
  /\ JustCalled(E1, "add_menu_item") /\ last.menu
  /\ last.items = <<"weather">>
  /\ store[E1].menu_active
  /\ store[E1].menu_items = <<>> /\ store[E1].status_icons = <<>>
  /\ Contains(last.changes.menu_items, "weather")
  /\ Contains(last.changes.status_icons, "weather")

\* C14: the add_menu_item service with item x and timeout t queues status_icons with
\* x, leaves menu_items alone and arms an auto-remove of the status icon x after t.
C14_ServiceAddArmsTimeout ==
  \A e \in Entities, x \in Icons :
    ( /\ JustCalled(e, "service_add_menu_item")
      /\ last.items = <<x>> /\ last.timeout # NoTimeout
      /\ options[e].has_entry /\ store[e].exists
      /\ ~Contains(store[e].status_icons, x) )
    => /\ Has(last.changes, "status_icons")
       /\ Contains(last.changes.status_icons, x)
       /\ ~Has(last.changes, "menu_items")
       /\ \E t \in item_tasks :
            t.entity = e /\ t.item = x /\ ~t.is_menu /\ t.delay = last.timeout

C14_Scenario ==
  /\ JustCalled(E1, "service_add_menu_item")
  /\ last.items = <<"music">> /\ last.timeout = 5
  /\ ~store[E1].menu_active
  /\ ~Contains(store[E1].menu_items, "music")
  /\ last.changes = [menu_items |-> Append(store[E1].menu_items, "music")]
  /\ item_tasks = {}

\* C15: the toggle_menu service on an enabled device does not raise and queues the
\* requested menu_active value.
C15_ServiceToggleCompletes ==
  \A e \in Entities :
    ( /\ JustCalled(e, "service_toggle_menu")
      /\ options[e].has_entry /\ options[e].enable_menu
      /\ store[e].exists )
    => /\ ~raised
       /\ last.result # "raised"
       /\ Has(last.changes, "menu_active")
       /\ last.changes.menu_active = (last.show = "True")

C15_Scenario ==
  /\ JustCalled(E1, "service_toggle_menu")
  /\ last.show = "True" /\ last.timeout = NoTimeout /\ last.items = <<>>
  /\ options[E1].enable_menu
  /\ raised
  /\ pending_updates = <<>>

\* C16: a set_timer call with a target, or a snooze_timer call, whose time phrase
\* does not decode invokes no Timer Engine method, leaves the timers as they
\* were, raises nothing and returns an error result.
C16_UndecodedTimeIsError ==
  [][( /\ calls' # calls
       /\ \/ last'.op = "service_set_timer" /\ last'.selector \in {"entity", "device"}
          \/ last'.op = "service_snooze_timer"
       /\ decode_time_sentence(last'.phrase) = NoInfo )
     => /\ last'.engine = "none"
        /\ timers' = timers
        /\ ~raised'
        /\ last'.result = "error"]_vars

C16_Witness ==
  /\ Len(trace) = 2
  /\ trace[1].op = "service_set_timer" /\ trace[1].result = "ok"
  /\ last.op = "service_snooze_timer" /\ last.entity_id = TimerIdSeq[1]
  /\ last.phrase = "soon"
  /\ last.result = "error"
  /\ \E t \in timers : t.id = TimerIdSeq[1] /\ t.info = decode_time_sentence(trace[1].phrase)

\* C17: a cancel_timer call without a meaningful selector invokes no Timer Engine
\* method, cancels no timer and returns an error result.
C17_NoSelectorIsError ==
  [][( /\ calls' # calls
       /\ last'.op = "service_cancel_timer"
       /\ last'.selector \in {"none", "empty_id", "null_device", "keep_all"} )
     => /\ last'.engine = "none"
        /\ timers' = timers
        /\ ~raised'
        /\ last'.result = "error"]_vars

C17_Witness ==
  /\ Len(trace) = 2
  /\ trace[1].op = "service_set_timer" /\ trace[1].result = "ok"
  /\ last.op = "service_cancel_timer" /\ last.selector = "keep_all"
  /\ last.result = "error"
  /\ \E t \in timers : t.status = "active"

\* C18: right after a toggle_menu(show=False) of an enabled, existing device the
\* device has no pending auto-close task, and an auto-close callback runs after
\* such a call only if a later call armed a new one.
C18_HideCancelsAutoClose ==
  \A e \in Entities :
    /\ ( /\ IsToggle(last, e, "False")
         /\ options[e].has_entry /\ options[e].enable_menu /\ store[e].exists )
       => NoTimeoutPending(e)
    /\ \A i, j \in 1..Len(trace) :
         ( /\ i < j
           /\ IsToggle(trace[i], e, "False")
           /\ options[e].has_entry /\ options[e].enable_menu /\ store[e].exists
           /\ IsMenuTimeout(trace[j], e) )
         => \E k \in (i+1)..(j-1) : Armed(trace[k], e)

C18_Witness ==
  /\ Len(trace) >= 2
  /\ Armed(trace[Len(trace)-1], E1)
  /\ trace[Len(trace)-1].timeout = NoTimeout
  /\ IsToggle(last, E1, "False")
  /\ menu_states[E1].menu_timeout = NoTask
  /\ timeout_tasks = {}

\* C19: whatever is queued through _update_entity_state is eventually taken out
\* of the pending updates and issued, without any further menu operation.
C19_QueuedIsEventuallyIssued ==
  (pending_updates # <<>>) ~> (pending_updates = <<>>)

\* a change queued while the flush task awaited a write is still pending when
\* the flush task has finished and no call is left
C19_Stranded ==
  /\ update_task = "done"
  /\ pending_updates # <<>>
  /\ timeout_tasks = {}
  /\ calls = 0
  /\ Len(trace) >= 3
  /\ IsSetState(trace[Len(trace)-1], E1)
  /\ IsToggle(last, E1, "False") /\ last.task = "awaiting"

\* an active menu shows every configured item
ShowsItsItems(st) ==
  (st.exists /\ st.menu_active) =>
    \A i \in Elems(st.menu_items) : Contains(st.status_icons, i)

\* nothing is queued or in flight
Flushed ==
  /\ pending_updates = <<>>
  /\ flush_updates = <<>>
  /\ update_task \in {"none", "done"}

\* only toggle_menu, add_menu_item and remove_menu_item calls of e, auto-close
\* callbacks and flushes have happened
OnlyMenuCalls(e) ==
  \A k \in 1..Len(trace) :
    /\ trace[k].entity_id = e
    /\ trace[k].op \in {"toggle_menu", "add_menu_item", "remove_menu_item",
                        "menu_timeout", "set_state"}

\* C20: with nothing left to flush, a store that showed its items at the start and
\* was changed by toggle_menu, add_menu_item and remove_menu_item calls only has,
\* when menu_active, every element of menu_items in status_icons.
C20_ActiveMenuShowsItems ==
  \A e \in Entities :
    (Flushed /\ OnlyMenuCalls(e) /\ ShowsItsItems(store0[e])) => ShowsItsItems(store[e])

C20_Scenario ==
  /\ Flushed
  /\ Len(trace) = 3
  /\ ~store0[E1].menu_active
  /\ ~options[E1].show_menu_button
  /\ store0[E1].menu_items = <<"music", "weather">> /\ store0[E1].status_icons = <<>>
  /\ IsToggle(trace[1], E1, "True") /\ trace[1].task = "sleeping"
  /\ IsMenuCall(trace[2], E1) /\ trace[2].op = "add_menu_item"
  /\ ~trace[2].menu /\ trace[2].items = <<"weather">>
  /\ trace[2].task = "sleeping"
  /\ IsSetState(trace[3], E1)
  /\ store[E1].menu_active
  /\ store[E1].menu_items = <<"music", "weather">>
  /\ store[E1].status_icons = <<"weather">>

\* a toggle_menu call or an auto-close callback of e that wrote the given
\* menu_active value
Wrote(x, e, active) ==
  /\ x.entity_id = e
  /\ x.op \in {"toggle_menu", "menu_timeout"}
  /\ Has(x.changes, "menu_active") /\ x.changes.menu_active = active

\* the first event opened the menu of e and brought x, a configured item that was
\* not a status icon before, into status_icons; the event at position j closes
\* the menu, and no toggle_menu ran in between
OpenedWithThenClosed(e, x, j) ==
  /\ j >= 2 /\ j <= Len(trace)
  /\ Wrote(trace[1], e, TRUE)
  /\ ~store0[e].menu_active
  /\ ~Contains(store0[e].status_icons, x)
  /\ Contains(store0[e].menu_items, x)
  /\ Contains(trace[1].changes.status_icons, x)
  /\ ~(x = MenuIcon /\ options[e].show_menu_button)
  /\ Wrote(trace[j], e, FALSE)
  /\ \A k \in 2..(j-1) : trace[k].op \notin {"toggle_menu", "menu_timeout"}

\* C21: an icon that entered status_icons only as a configured menu item when the
\* menu was opened is absent from the status_icons written by the toggle_menu
\* that closes the menu, whatever add_menu_item and remove_menu_item calls ran
\* while the menu was open.
C21_ClosingStripsMenuIcons ==
  \A e \in Entities, x \in Icons, j \in 1..Len(trace) :
    OpenedWithThenClosed(e, x, j) => ~Contains(trace[j].changes.status_icons, x)

C21_Scenario ==
  /\ Len(trace) = 5
  /\ OpenedWithThenClosed(E1, "weather", 5)
  /\ store0[E1].status_icons = <<>> /\ store0[E1].menu_items = <<"weather">>
  /\ IsSetState(trace[2], E1)
  /\ trace[3].op = "remove_menu_item" /\ trace[3].menu
  /\ trace[3].items = <<"weather">>
  /\ trace[3].changes = [menu_items |-> <<>>, status_icons |-> <<"weather", "menu">>]
  /\ IsSetState(trace[4], E1)
  /\ IsMenuTimeout(trace[5], E1)
  /\ trace[5].changes.status_icons = <<"weather", "menu">>

\* the menu of e is closed in the store and no configured item is a status icon
\* (the toggle icon aside, which the button setting keeps)
StoredClosed(e) ==
  /\ ~store[e].menu_active
  /\ \A i \in Elems(store[e].status_icons) :
       Contains(store[e].menu_items, i) => i = MenuIcon /\ options[e].show_menu_button

\* C22: once a toggle_menu(show=True) has armed an auto-close for a device, the
\* store eventually holds menu_active=false for it with the configured items
\* stripped from status_icons, unless a later toggle_menu call of the device
\* intervenes; timers and tasks are scheduled fairly.
C22_AutoCloseReachesStore ==
  \A e \in ActiveEntities :
    Armed(last, e)
      ~> (StoredClosed(e) \/ (last.op = "toggle_menu" /\ last.entity_id = e /\ ~Armed(last, e)))

\* the auto-close callback ran while the flush task awaited the opening write:
\* its changes stay queued, the flush task is done, the stored menu is open
C22_Scenario ==
  /\ Len(trace) = 3
  /\ Armed(trace[1], E1)
  /\ IsSetState(trace[2], E1)
  /\ IsMenuTimeout(last, E1) /\ last.task = "awaiting"
  /\ Has(last.changes, "menu_active") /\ ~last.changes.menu_active
  /\ update_task = "done"
  /\ timeout_tasks = {}
  /\ PendingIndex(pending_updates, E1) # 0
  /\ store[E1].menu_active

\* the updates the flush task holds: the pending ones before it has taken them,
\* its local copy afterwards
Collected == IF update_task = "sleeping" THEN pending_updates ELSE flush_updates

\* this step is a set_state call that raised
WriteFails == Len(trace') = Len(trace) + 1 /\ last'.op = "set_state_failed"

\* C23: when the set_state call for one device fails during a flush, the changes
\* the flush collected for every other device are still on their way to the store,
\* the flush task goes on, and no caller of a menu operation sees an exception.
C23_WriteFailureIsContained ==
  [][WriteFails =>
       /\ flush_updates' = Tail(Collected)
       /\ Tail(Collected) # <<>> => update_task' = "awaiting"
       /\ raised' = raised]_vars

\* the write for sensor.va1 failed in a flush that had also collected a change of
\* sensor.va2: that change is neither stored nor queued any more
C23_Scenario ==
  /\ Len(trace) = 3
  /\ IsToggle(trace[1], E1, "True") /\ Queued(trace[1])
  /\ IsToggle(trace[2], E2, "True") /\ Queued(trace[2]) /\ trace[2].task = "sleeping"
  /\ last.op = "set_state_failed" /\ last.entity_id = E1
  /\ ~store0[E2].menu_active
  /\ store[E2] = store0[E2]
  /\ pending_updates = <<>> /\ flush_updates = <<>>
  /\ update_task = "done"
  /\ ~raised

\* the delays of the pending auto-close tasks of e
PendingDelays(e) == {t.delay : t \in PendingTimeouts(e)}

\* C24: on an enabled, existing device, right after a toggle_menu that shows the
\* menu the pending auto-close has the explicit timeout as its delay if one was
\* given (0 included), otherwise the configured menu timeout if and only if the
\* menu-timeout option is enabled; right after a toggle_menu that hides the menu
\* no auto-close is pending, whatever timeout was passed.
C24_TimeoutSelection ==
  \A e \in Entities :
    ( /\ last.op = "toggle_menu" /\ last.entity_id = e
      /\ options[e].has_entry /\ options[e].enable_menu /\ store[e].exists )
    => /\ Has(last.changes, "menu_active")
       /\ (last.changes.menu_active /\ last.timeout # NoTimeout)
            => PendingDelays(e) = {last.timeout}
       /\ (last.changes.menu_active /\ last.timeout = NoTimeout)
            => PendingDelays(e) = IF options[e].enable_menu_timeout
                                  THEN {options[e].menu_timeout} ELSE {}
       /\ ~last.changes.menu_active => PendingDelays(e) = {}
       /\ \A t \in PendingTimeouts(e) : menu_states[e].menu_timeout = t.id

C24_Witness ==
  /\ Len(trace) >= 2
  /\ Armed(trace[Len(trace)-1], E1) /\ trace[Len(trace)-1].timeout = NoTimeout
  /\ IsToggle(last, E1, "True")
  /\ last.timeout = 0
  /\ options[E1].enable_menu_timeout
  /\ PendingDelays(E1) = {0}

\* menu_active as _get_or_create_state reads it for an entity
ActiveOf(e) ==
  IF store[e].exists THEN store[e].menu_active ELSE menu_states[e].active

\* this step is a call add_menu_item(e, items, menu=True) with items, on a device
\* with a config entry
AddsMenuItems(e) ==
  /\ calls' # calls
  /\ last'.op = "add_menu_item" /\ last'.entity_id = e /\ last'.menu
  /\ last'.items # <<>>
  /\ options[e].has_entry

\* C25: add_menu_item(menu=True) writes status_icons, with every item in it, if and
\* only if the menu is active and some item is new to configured_items; it writes
\* menu_items if and only if some item is new; on an inactive menu status_icons is
\* not in the write and the cached status_icons stay what they were.
C25_LiveOnlyWhenActive ==
  [][\A e \in Entities :
       AddsMenuItems(e) =>
         LET newly == \E i \in Elems(last'.items) : ~Contains(ConfiguredItemsOf(e), i)
             changes == last'.changes
         IN /\ Has(changes, "status_icons") <=> (ActiveOf(e) /\ newly)
            /\ Has(changes, "menu_items") <=> newly
            /\ ~Has(changes, "menu_active")
            /\ newly => changes.menu_items =
                          AppendMissing(ConfiguredItemsOf(e), last'.items)
            /\ Has(changes, "status_icons") =>
                 /\ \A i \in Elems(last'.items) : Contains(changes.status_icons, i)
                 /\ \A i \in Elems(StatusIconsOf(e)) : Contains(changes.status_icons, i)
            /\ ~ActiveOf(e) => menu_states'[e].status_icons = StatusIconsOf(e)]_vars

C25_Witness ==
  /\ last.op = "add_menu_item" /\ last.entity_id = E1 /\ last.menu
  /\ last.items = <<"music", "weather">>
  /\ options[E1].has_entry
  /\ store[E1].exists /\ ~store[E1].menu_active
  /\ store[E1].menu_items = <<"weather">>
  /\ store[E1].status_icons = <<"menu", "weather">>
  /\ last.changes = [menu_items |-> <<"weather", "music">>]
  /\ menu_states[E1].status_icons = <<"menu", "weather">>
  /\ PendingIndex(pending_updates, E1) # 0

\* the pending auto-remove tasks of a (device, item, is-menu-item) key
ItemTasksOf(tasks, e, item, is_menu) ==
  {t \in tasks : t.entity = e /\ t.item = item /\ t.is_menu = is_menu}

PendingItemTasks(e, item, is_menu) == ItemTasksOf(item_tasks, e, item, is_menu)

\* this step is an add_menu_item call of e with a timeout
AddsWithTimeout(e) ==
  /\ calls' # calls
  /\ last'.op = "add_menu_item" /\ last'.entity_id = e
  /\ last'.timeout # NoTimeout

\* C26: a (device, item, is-menu-item) key never has more than one pending
\* auto-remove task, and the pending one is the task item_timeouts holds under the
\* key; an add_menu_item with a timeout leaves one pending task for each of its
\* keys and leaves the pending tasks of every other key alone, the same item under
\* the other is-menu-item value included.
C26_OneAutoRemovePerKey ==
  [][\A e \in Entities :
       /\ \A i \in Icons, b \in BOOLEAN :
            Cardinality(ItemTasksOf(item_tasks', e, i, b)) <= 1
       /\ \A t \in item_tasks' :
            t.entity = e =>
              /\ Has(menu_states'[e].item_timeouts, ItemKey(t.item, t.is_menu))
              /\ menu_states'[e].item_timeouts[ItemKey(t.item, t.is_menu)] = t.id
       /\ AddsWithTimeout(e) =>
            /\ \A i \in Elems(last'.items) :
                 Cardinality(ItemTasksOf(item_tasks', e, i, last'.menu)) = 1
            /\ \A t \in item_tasks :
                 (t.entity # e \/ t.is_menu # last'.menu \/ ~Contains(last'.items, t.item))
                   => t \in item_tasks']_vars

\* a status icon and a menu item of the same name each have their auto-remove
\* pending, and the last call re-armed the second key
C26_Witness ==
  /\ Len(trace) = 3
  /\ trace[1].op = "add_menu_item" /\ ~trace[1].menu /\ trace[1].timeout # NoTimeout
  /\ trace[1].items = <<"weather">>
  /\ trace[2].op = "add_menu_item" /\ trace[2].menu /\ trace[2].timeout # NoTimeout
  /\ trace[2].items = <<"weather">>
  /\ IsSetState(trace[3], E1)
  /\ Cardinality(PendingItemTasks(E1, "weather", FALSE)) = 1
  /\ Cardinality(PendingItemTasks(E1, "weather", TRUE)) = 1
  /\ DOMAIN menu_states[E1].item_timeouts = {"status_weather", "menu_weather"}

\* this step is a remove_menu_item of e that got past its checks: a call, or the
\* callback of an auto-remove task
RemoveReturns(e) ==
  /\ Len(trace') = Len(trace) + 1
  /\ last'.op \in {"remove_menu_item", "item_timeout"} /\ last'.entity_id = e
  /\ last'.items # <<>>
  /\ options[e].has_entry

\* C27: when remove_menu_item(e, items, menu=m) returns on a device with a config
\* entry, no auto-remove task is pending for any key (item, m) and item_timeouts
\* holds none of these keys, whether or not a list changed; every other pending
\* auto-remove task, the one of (item, not m) included, is still pending.
C27_RemoveCancelsItsKeyOnly ==
  [][\A e \in Entities :
       RemoveReturns(e) =>
         /\ \A x \in Elems(last'.items) :
              /\ ItemTasksOf(item_tasks', e, x, last'.menu) = {}
              /\ ~Has(menu_states'[e].item_timeouts, ItemKey(x, last'.menu))
         /\ \A t \in item_tasks :
              (t.entity # e \/ t.is_menu # last'.menu \/ ~Contains(last'.items, t.item))
                => /\ t \in item_tasks'
                   /\ menu_states'[e].item_timeouts[ItemKey(t.item, t.is_menu)] = t.id]_vars

\* remove_menu_item("weather", menu=True) changed no list and cancelled the menu
\* item's auto-remove; the status icon's auto-remove is still pending
C27_Witness ==
  /\ Len(trace) = 2
  /\ trace[1].op = "add_menu_item" /\ trace[1].timeout # NoTimeout
  /\ trace[1].items = <<"weather">> /\ ~trace[1].menu
  /\ last.op = "remove_menu_item" /\ last.menu /\ last.items = <<"music", "weather">>
  /\ last.changes = EmptyDict
  /\ Cardinality(PendingItemTasks(E1, "weather", FALSE)) = 1
  /\ PendingItemTasks(E1, "weather", TRUE) = {}
  /\ PendingItemTasks(E1, "music", TRUE) = {}
  /\ DOMAIN menu_states[E1].item_timeouts = {"status_weather"}

\* the step appended an event of e with one of the given names
Ran(e, names) ==
  /\ Len(trace') = Len(trace) + 1
  /\ last'.op \in names /\ last'.entity_id = e

\* the changes the step handed to _update_entity_state are in the pending updates
ChangesQueued(e) ==
  /\ PendingIndex(pending_updates', e) # 0
  /\ \A a \in DOMAIN last'.changes :
       /\ Has(pending_updates'[PendingIndex(pending_updates', e)].changes, a)
       /\ pending_updates'[PendingIndex(pending_updates', e)].changes[a] = last'.changes[a]

C29_HideOnInactiveQueuesNothing ==
  \A e \in Entities :
    ( /\ IsToggle(last, e, "False")
      /\ options[e].has_entry /\ options[e].enable_menu
      /\ store[e].exists /\ ~store[e].menu_active )
    => /\ last.changes = EmptyDict
       /\ PendingIndex(pending_updates, e) = 0
       /\ ~menu_states[e].active
       /\ menu_states[e].status_icons = store[e].status_icons

\* the call on an inactive menu has queued a write of the values the store holds
C29_Scenario ==
  /\ Len(trace) = 1
  /\ IsToggle(last, E1, "False")
  /\ options[E1].has_entry /\ options[E1].enable_menu /\ ~options[E1].show_menu_button
  /\ ~store[E1].menu_active
  /\ store[E1].status_icons = <<"music">> /\ store[E1].menu_items = <<"weather">>
  /\ last.changes = [status_icons |-> <<"music">>, menu_active |-> FALSE]
  /\ pending_updates = <<[entity_id |-> E1, changes |-> last.changes]>>
  /\ update_task = "sleeping"

\* the store holds "menu" in status_icons, but not as the last entry
MenuMisplaced(e) ==
  /\ store[e].exists
  /\ Contains(store[e].status_icons, MenuIcon)
  /\ ~IsLast(store[e].status_icons, MenuIcon)

\* C30: with show_menu_button enabled and "menu" present but not last in the
\* store's status_icons, every toggle_menu, add_menu_item, remove_menu_item and
\* refresh_menu that writes status_icons writes a list in which "menu" is last.
C30_WritesPutMenuLast ==
  \A e \in Entities :
    ( /\ last.entity_id = e /\ last.op \in MenuCalls
      /\ ButtonShown(e)
      /\ MenuMisplaced(e)
      /\ Has(last.changes, "status_icons") )
    => IsLast(last.changes.status_icons, MenuIcon)

\* remove_menu_item has written the misplaced "menu" back where it was
C30_Scenario ==
  /\ Len(trace) = 1
  /\ last.op = "remove_menu_item" /\ last.entity_id = E1 /\ last.menu
  /\ last.items = <<"music", "weather">>
  /\ ButtonShown(E1)
  /\ store[E1].menu_active
  /\ store[E1].status_icons = <<"menu", "weather">>
  /\ store[E1].menu_items = <<"music">>
  /\ last.changes = [menu_items |-> <<>>, status_icons |-> <<"menu", "weather">>]

\* position i holds a refresh_menu of e that wrote, and only set_state calls have
\* happened since: no other operation, no navigation, no timeout
RefreshedBefore(i, e) ==
  /\ i \in 1..Len(trace)
  /\ trace[i].op = "refresh_menu" /\ trace[i].entity_id = e
  /\ Queued(trace[i])
  /\ \A k \in (i+1)..Len(trace) : IsSetState(trace[k], e)

\* C31: a refresh_menu on an active menu that follows another one, with nothing
\* but flushes in between, hands over exactly the status_icons, menu_items and
\* menu_active of the first; and a refresh_menu leaves every auto-close and
\* auto-remove task and handle as it was.
C31_RefreshIsIdempotent ==
  [][\A e \in ActiveEntities :
       Ran(e, {"refresh_menu"}) =>
         /\ timeout_tasks' = timeout_tasks
         /\ item_tasks' = item_tasks
         /\ menu_states'[e].menu_timeout = menu_states[e].menu_timeout
         /\ menu_states'[e].item_timeouts = menu_states[e].item_timeouts
         /\ \A i \in 1..Len(trace) :
              (RefreshedBefore(i, e) /\ ActiveOf(e))
                => last'.changes = trace[i].changes]_vars

\* the second refresh_menu, after the first one's write has landed, with an
\* auto-remove task pending; the first one had dropped the current view
C31_Witness ==
  /\ Len(trace) = 4
  /\ trace[1].op = "add_menu_item" /\ trace[1].timeout # NoTimeout
  /\ trace[2].op = "refresh_menu" /\ Queued(trace[2])
  /\ IsSetState(trace[3], E1)
  /\ last.op = "refresh_menu"
  /\ last.changes = trace[2].changes
  /\ last.changes.menu_items = <<"music">>
  /\ store0[E1].status_icons = <<"weather", "menu">>
  /\ store[E1].status_icons = last.changes.status_icons
  /\ store[E1].status_icons # store0[E1].status_icons
  /\ item_tasks # {}

\* the latest event is an add_menu_item(e, x, menu=m) with a timeout, on a device
\* with a config entry where x was not a status icon to begin with
AddedWithTimeout(e, x, m) ==
  /\ last.op = "add_menu_item" /\ last.entity_id = e
  /\ last.items = <<x>> /\ last.menu = m
  /\ last.timeout # NoTimeout
  /\ options[e].has_entry
  /\ ~Contains(store0[e].status_icons, x)

\* two calls of e have named x
NamedTwice(e, x) ==
  \E i, k \in 1..Len(trace) :
    /\ i < k
    /\ trace[i].entity_id = e /\ trace[k].entity_id = e
    /\ trace[i].op \in {"add_menu_item", "remove_menu_item"}
    /\ trace[k].op \in {"add_menu_item", "remove_menu_item"}
    /\ Contains(trace[i].items, x) /\ Contains(trace[k].items, x)

\* x is gone from the collection add_menu_item(menu=m) put it into, and from the
\* icons of an active menu when it was a menu item
AutoRemoved(e, x, m) ==
  IF m THEN /\ ~Contains(store[e].menu_items, x)
            /\ store[e].menu_active => ~Contains(store[e].status_icons, x)
  ELSE ~Contains(store[e].status_icons, x)

\* C32: after add_menu_item(e, x, menu=m, timeout=t), unless another call names
\* x, the store eventually holds x, and from then on, neither in the collection
\* the call targeted nor, for a menu item of an active menu, in status_icons;
\* timers and tasks are scheduled fairly.
C32_ItemIsAutoRemoved ==
  \A e \in ActiveEntities, m \in BOOLEAN :
    AddedWithTimeout(e, "weather", m)
      ~> [](AutoRemoved(e, "weather", m) \/ NamedTwice(e, "weather"))

\* the auto-remove of a menu item has run and its write has landed: the item is
\* out of menu_items, its icon is still on the bar of the active menu, and
\* nothing is left to run
C32_Scenario ==
  /\ Len(trace) = 4
  /\ trace[1].op = "add_menu_item" /\ trace[1].menu /\ trace[1].timeout # NoTimeout
  /\ trace[1].items = <<"weather">>
  /\ store0[E1].menu_active /\ store0[E1].status_icons = <<"music">>
  /\ store0[E1].menu_items = <<"music">>
  /\ IsSetState(trace[2], E1)
  /\ trace[3].op = "item_timeout" /\ trace[3].items = <<"weather">>
  /\ IsSetState(trace[4], E1)
  /\ store[E1].menu_active
  /\ store[E1].menu_items = <<"music">>
  /\ Contains(store[E1].status_icons, "weather")
  /\ Flushed /\ item_tasks = {} /\ timeout_tasks = {}

\* the menu_items value the device had when the call at position k began: the
\* value most recently handed over by a menu operation, or the store's when the
\* history began
QueuedItemsAt(i, e) ==
  /\ trace[i].entity_id = e
  /\ trace[i].op \in MenuCalls
  /\ Has(trace[i].changes, "menu_items")

ItemsBefore(k, e) ==
  LET js == {j \in 1..(k-1) : QueuedItemsAt(j, e)}
  IN IF js = {} THEN store0[e].menu_items
     ELSE trace[CHOOSE j \in js : \A i \in js : i <= j].changes.menu_items

\* C33: the menu_items a toggle_menu or refresh_menu hands over hold no element
\* that the device's menu_items did not hold before the call: only
\* add_menu_item(menu=True) makes the configured items grow, so an item dropped
\* as the current view does not come back after the view has changed.
C33_OnlyAddGrowsConfiguredItems ==
  \A e \in ActiveEntities : \A k \in 1..Len(trace) :
    (QueuedItemsAt(k, e) /\ trace[k].op \in {"toggle_menu", "refresh_menu"})
      => \A x \in Elems(trace[k].changes.menu_items) :
           Contains(ItemsBefore(k, e), x)

\* refresh_menu drops the displayed view from the configured items, the view
\* changes before the write is issued, and a second refresh_menu hands the
\* dropped item over again
C33_Scenario ==
  /\ Len(trace) = 3
  /\ store0[E1].menu_items = <<"music", "weather">>
  /\ store0[E1].current_path = <<"view-assist", "weather">>
  /\ trace[1].op = "refresh_menu" /\ trace[1].entity_id = E1
  /\ trace[1].changes.menu_items = <<"music">>
  /\ trace[2].op = "navigate" /\ trace[2].entity_id = E1
  /\ trace[3].op = "refresh_menu" /\ trace[3].entity_id = E1
  /\ trace[3].changes.menu_items = <<"music", "weather">>
  /\ menu_states[E1].configured_items = <<"music", "weather">>

\* what the manager and the store hold for one device
TimeoutsOf(tasks, b) == {t \in tasks : t.entity = b}

UpdatesOf(updates, b) == SelectSeq(updates, LAMBDA u : u.entity_id = b)

DeviceCalls == MenuCalls \cup {"menu_timeout", "item_timeout"}

\* C34: a menu operation on one device, an auto-close or an auto-remove of it
\* included, leaves every other device's MenuState, pending auto-close and
\* auto-remove tasks, queued changes, changes being written and stored
\* attributes as they were.
C34_OtherDevicesUntouched ==
  [][\A a \in Entities :
       Ran(a, DeviceCalls) =>
         \A b \in Entities \ {a} :
           /\ menu_states'[b] = menu_states[b]
           /\ TimeoutsOf(timeout_tasks', b) = TimeoutsOf(timeout_tasks, b)
           /\ TimeoutsOf(item_tasks', b) = TimeoutsOf(item_tasks, b)
           /\ UpdatesOf(pending_updates', b) = UpdatesOf(pending_updates, b)
           /\ UpdatesOf(flush_updates', b) = UpdatesOf(flush_updates, b)
           /\ store'[b] = store[b]]_vars

\* toggle_menu on the first device returned with an auto-close armed, while the
\* second device has an auto-remove pending and its changes are still queued
C34_Witness ==
  /\ last.op = "toggle_menu" /\ last.entity_id = E1
  /\ DOMAIN last.changes # {}
  /\ TimeoutsOf(timeout_tasks, E1) # {}
  /\ TimeoutsOf(item_tasks, E2) # {}
  /\ UpdatesOf(pending_updates, E2) # <<>>
  /\ UpdatesOf(pending_updates, E1) # <<>>
  /\ menu_states[E2].created

\* toggle_menu on device e has just returned, having handed over its changes
ToggleReturned(e) ==
  /\ last.op = "toggle_menu" /\ last.entity_id = e
  /\ Has(last.changes, "menu_active") /\ Has(last.changes, "status_icons")

\* C35: when toggle_menu returns for an enabled, existing device, the cached
\* MenuState.active is the state the call switched to and the cached
\* status_icons are the list it queued for writing, also when it armed an
\* auto-close and nothing has been written yet.
C35_CacheReflectsToggle ==
  \A e \in ActiveEntities :
    ToggleReturned(e) =>
      /\ menu_states[e].active = last.changes.menu_active
      /\ menu_states[e].status_icons = last.changes.status_icons

\* toggle_menu(show=True, timeout=0) on an inactive menu has returned with the
\* auto-close armed and the write still queued; the cache says inactive
C35_Scenario ==
  /\ Len(trace) = 1
  /\ ToggleReturned(E1)
  /\ last.show = "True" /\ last.timeout = 0
  /\ ~store0[E1].menu_active
  /\ last.changes.menu_active
  /\ TimeoutsOf(timeout_tasks, E1) # {}
  /\ PendingIndex(pending_updates, E1) # 0
  /\ ~menu_states[E1].active
  /\ menu_states[E1].status_icons = store[E1].status_icons
  /\ menu_states[E1].status_icons # last.changes.status_icons

====
